---- MODULE Spec2Model ----
(***************************************************************************)
(* State-machine model of the tidl download core.                          *)
(*                                                                         *)
(* Two implementations of the Download class live in the repository:       *)
(*   src/src/download.py  threaded: fetch with retries, abort/pause events *)
(*   src/src/dl.py        asyncio: batches, database, one-shot fetches     *)
(* The variable impl says which of the two a behaviour runs.               *)
(***************************************************************************)
EXTENDS Integers, Sequences, FiniteSets, TLC

VARIABLES
    impl,         \* "download" (download.py) or "dl" (dl.py)
    skip_existing,\* Download.skip_existing
    skip_db,      \* dl.py: Download.skip_db
    concurrent_downloads, \* dl.py: Download.concurrent_downloads
    abort_at,     \* history: whether abort was set during the dispatch loop
    cur,          \* dl.py: the task the event loop is running (0: none)
    api_lock,     \* dl.py: the track holding Download.api_lock (0: free)
    semaphore,    \* dl.py: free permits of the semaphore of _process_batch
    db,           \* dl.py: the download records of the database, per track
    batch,        \* dl.py: the state of _process_batch
    orch,         \* dl.py: the state of orchestrate_download
    elapsed,      \* dl.py: ticks since RateLimiter.last_call, up to min_interval
    event_abort,  \* Download.event_abort (threading.Event)
    event_pause,  \* Download.event_pause (threading.Event; set = not paused)
    fs,           \* the file system: path -> content, path = <<dir, name>>
    wsLive,       \* the TemporaryDirectory workspaces that exist
    nextWs,       \* names handed out by TemporaryDirectory so far
    trk,          \* per track: position and locals of its processing routine
    fetch,        \* per <<track, url position>>: the fetch of that URL
    http_errors,  \* HTTP-layer errors the servers have answered with so far
    url_tokens,   \* what the trailing tokens of the stream URLs look like
    client,       \* download.py: Download.client, the httpx client ("open"/"closed")
    atexit,       \* download.py: the calls of the registered emergency_cleanup
    MASTER_KEY,   \* decryption.py: the module global MASTER_KEY
    key_log,      \* history: first and latest call of decrypt_security_token
    instances,    \* client.py: SingletonMeta._instances, class -> object
    heap,         \* client.py: the TidlClient objects that were initialised
    calls         \* history: what the calls on TidlClient returned

cfgVars == <<impl, skip_existing, skip_db, concurrent_downloads, url_tokens>>
exitVars == <<client, atexit>>
libVars == <<MASTER_KEY, key_log, instances, heap, calls>>
dlVars == <<cur, api_lock, semaphore, db, batch, orch, elapsed>>
threadVars == <<abort_at, event_abort, event_pause>>

vars == <<cfgVars, dlVars, abort_at, event_abort, event_pause, fs, wsLive, nextWs, trk,
          fetch, http_errors, exitVars, libVars>>

----------------------------------------------------------------------------
(* Bounds of the model *)

MaxSegs == 2      \* URLs of a stream descriptor: 1..MaxSegs
NChunks == 2      \* 8 KiB chunks of one URL's payload
MaxHttpErrors == 1 \* HTTP-layer errors while a multi-URL stream is fetched
min_interval == 2 \* RateLimiter.min_interval, in ticks of the clock

(* Program constants *)

MaxExitCalls == 2 \* calls of the registered emergency_cleanup
MaxClientCalls == 4 \* constructions and method calls of TidlClient
MaxBatchCalls == 2 \* calls of _process_batch with the same track

retries == 5      \* _download_file: retries = 5
max_workers == 4  \* ThreadPoolExecutor(max_workers=4)

Exts == {".m4a", ".flac"}

\* The destination directory (output_dir / download_dir); workspaces are 1, 2, ...
Dest == 0

----------------------------------------------------------------------------
(* Bytes, payloads and counter-mode decryption *)

RECURSIVE Xor(_, _)
Xor(a, b) ==
    IF a = 0 THEN b
    ELSE IF b = 0 THEN a
    ELSE (((a % 2) + (b % 2)) % 2) + (2 * Xor(a \div 2, b \div 2))

\* Byte i (1-based) of the AES-CTR keystream of the track's (key, nonce), the
\* counter starting at 0 for every file (decrypt_file builds a new Counter).
KeyStream(i) == 128 + ((37 * i) % 128)

\* decryptor.decrypt(data): XOR with the keystream, position by position.
XorStream(data) == [i \in 1..Len(data) |-> Xor(data[i], KeyStream(i))]

\* The audio bytes of the URL at position p of the descriptor (plaintext < 128).
Plain(p) == [c \in 1..NChunks |-> (10 * p) + c]

\* What the server sends for the URL at position p.
Served(s, p) == IF s.enc THEN XorStream(Plain(p)) ELSE Plain(p)

IsCipherByte(b) == b >= 128

----------------------------------------------------------------------------
(* Paths: a name is base, numeric id (-1: none) and its dot-suffixes *)

SegName(id, ext) == [base |-> "segment", id |-> id, sufs |-> <<ext>>]
PlainName(base, ext) == [base |-> base, id |-> -1, sufs |-> <<ext>>]
FinalName(t, ext) == [base |-> "track", id |-> t, sufs |-> <<ext>>]

Front(s) == SubSeq(s, 1, Len(s) - 1)

\* Path.with_suffix(suffix): the last suffix replaced by the given one(s).
with_suffix(name, sufs) == [name EXCEPT !.sufs = Front(@) \o sufs]

\* Path.suffix
suffix(name) == IF name.sufs = <<>> THEN "" ELSE name.sufs[Len(name.sufs)]

\* get_segment_id: int(path.stem.split("_")[-1]), 0 on ValueError.  The stem
\* keeps every suffix but the last, so "segment_001.decrypted" does not parse.
get_segment_id(name) ==
    IF name.base = "segment" /\ Len(name.sufs) <= 1 THEN name.id ELSE 0

\* sorted(segment_files, key=get_segment_id): stable insertion by key.
RECURSIVE InsertSorted(_, _)
InsertSorted(p, sorted) ==
    IF sorted = <<>> THEN <<p>>
    ELSE IF get_segment_id(p[2]) < get_segment_id(sorted[1][2])
         THEN <<p>> \o sorted
         ELSE <<sorted[1]>> \o InsertSorted(p, Tail(sorted))

RECURSIVE SortedSegments(_)
SortedSegments(files) ==
    IF files = <<>> THEN <<>>
    ELSE InsertSorted(files[Len(files)], SortedSegments(Front(files)))

Exists(f, p) == p \in DOMAIN f

Content(data) == [data |-> data, box |-> "orig", tags |-> FALSE]

WriteFile(f, p, c) == [q \in DOMAIN f \cup {p} |-> IF q = p THEN c ELSE f[q]]

Unlink(f, p) == [q \in DOMAIN f \ {p} |-> f[q]]

\* TemporaryDirectory.cleanup: the directory and everything below it.
RemoveTree(f, w) == [q \in {x \in DOMAIN f : x[1] # w} |-> f[q]]

\* The binary concatenation of _merge_segments: missing files are skipped.
RECURSIVE ConcatExisting(_, _)
ConcatExisting(f, files) ==
    IF files = <<>> THEN <<>>
    ELSE (IF Exists(f, files[1]) THEN f[files[1]].data ELSE <<>>)
         \o ConcatExisting(f, Tail(files))

----------------------------------------------------------------------------
(* Stream descriptors *)

\* URL lists: the parsed trailing numbers are 0..n-1, listed in ascending or
\* in descending order.
UrlLists ==
    UNION { { [i \in 1..n |-> i - 1], [i \in 1..n |-> n - i] } : n \in 1..MaxSegs }

Qualities == {"low_96k", "low_320k", "high_lossless", "hi_res_lossless"}

\* is_encrypted implies a security token is present (spec, data model).
\* The manifest names the codec and the extension: AAC in .m4a, FLAC in .flac,
\* or FLAC in .m4a (the misboxed case).
AllStreams ==
    { s \in [urls : UrlLists, enc : BOOLEAN, ext : Exts, codec : {"MP4A", "FLAC"},
             quality : Qualities] : s.ext = ".flac" => s.codec = "FLAC" }

\* download.py reads neither the codec nor the quality tier of a stream.
StreamsDownload ==
    { s \in AllStreams : /\ s.quality = "high_lossless"
                         /\ s.codec = (IF s.ext = ".flac" THEN "FLAC" ELSE "MP4A")
                         /\ Len(s.urls) > 1 => s.ext = ".m4a" }

\* dl.py on a batch of several tracks is explored with unencrypted AAC streams
\* of one or two URLs.
StreamsBatch ==
    { s \in AllStreams : /\ ~s.enc /\ s.codec = "MP4A" /\ s.quality = "high_lossless"
                         /\ s.urls \in {<<0>>, <<0, 1>>} }

\* A playlist of several batches is explored with one unencrypted AAC stream
\* of one URL.
StreamsPlaylist == { s \in StreamsBatch : s.urls = <<0>> /\ s.ext = ".m4a" }

\* Without the database the quality tier is not read; with the database the
\* single-URL streams of every tier are explored.
StreamsNoDb == { s \in AllStreams : s.quality = "high_lossless" }
StreamsDb == { s \in AllStreams : Len(s.urls) = 1 }

\* A trailing token that is no decimal number.
Unparsable == -1

\* URL lists in which any of the trailing tokens may be unparsable.
UrlListsAnyToken ==
    UNION { { [i \in 1..n |-> IF i \in U THEN Unparsable ELSE i - 1] : U \in SUBSET (1..n) }
            : n \in 2..MaxSegs }

\* Multi-URL AAC streams, encrypted or not, with any trailing tokens.
StreamsAnyToken ==
    [urls : UrlListsAnyToken, enc : BOOLEAN, ext : {".m4a"}, codec : {"MP4A"},
     quality : {"high_lossless"}]

\* segment_id = int(filename_stem) if filename_stem.isdecimal() else 0
segment_id(s, p) == IF s.urls[p] = Unparsable THEN 0 ELSE s.urls[p]

is_dash(s) == Len(s.urls) > 1

----------------------------------------------------------------------------
(* Track and fetch records *)

\* No run of ffprobe.
NoRun == [outcome |-> "none", streams |-> <<>>, format |-> "absent"]

NoStream == [urls |-> <<>>, enc |-> FALSE, ext |-> "", codec |-> "", quality |-> ""]
NoName == [base |-> "", id |-> -1, sufs |-> <<>>]

NewTrack ==
    [pc |-> "start", stream |-> NoStream, ws |-> 0, final |-> NoName,
     futures |-> <<>>, segment_files |-> <<>>, j |-> 0,
     file |-> NoName, existing_quality |-> "", wake |-> 0, ret |-> "none",
     success |-> "none", metadata |-> "none", keys |-> 0,
     probe |-> [raised |-> FALSE, run |-> NoRun, codec |-> "", container |-> ""],
     extracted |-> "none", result |-> "none", call |-> 1, full_name |-> 1]

\* The track whose full_name is the given one.
Track(full_name) == [NewTrack EXCEPT !.full_name = full_name]

NewFetch(path, st) ==
    [st |-> st, path |-> path, attempt |-> 1, written |-> 0,
     tries |-> 0, sleep_time |-> 0, ret |-> "none", why |-> "", orphan |-> FALSE]

Fetches == DOMAIN fetch

\* What track_service.get_stream_info may return.
Catalog ==
    IF impl = "download" THEN StreamsDownload
    ELSE IF url_tokens = "any" THEN StreamsAnyToken
    ELSE IF Cardinality(DOMAIN trk) > 2 THEN StreamsPlaylist
    ELSE IF Cardinality(DOMAIN trk) > 1 THEN StreamsBatch
    ELSE IF skip_db THEN StreamsNoDb
    ELSE StreamsDb

FetchDone(k) == fetch[k].st \in {"done", "cancelled"}

----------------------------------------------------------------------------
(* download.py: Download._download_file, one thread per fetch *)

Running == {k \in Fetches : fetch[k].st \notin {"queued", "done", "cancelled"}}

\* The servers answer a single-URL fetch with an error as often as they like
\* (the retry loop bounds it); a multi-URL stream sees MaxHttpErrors at most.
MayFail(k) == is_dash(trk[k[1]].stream) => http_errors < MaxHttpErrors

\* except httpx.HTTPError: unlink the partial file, sleep unless this was one
\* of the last attempts, and go round the loop.
AfterHttpError(k) ==
    /\ MayFail(k)
    /\ http_errors' = http_errors + 1
    /\ fs' = IF Exists(fs, fetch[k].path) THEN Unlink(fs, fetch[k].path) ELSE fs
    /\ fetch' = [fetch EXCEPT
                   ![k].st = IF fetch[k].attempt < retries - 1 THEN "sleep" ELSE "check",
                   ![k].attempt = IF fetch[k].attempt < retries - 1 THEN @ ELSE @ + 1,
                   ![k].sleep_time = IF fetch[k].attempt < retries - 1
                                     THEN 2 ^ fetch[k].attempt ELSE 0,
                   ![k].written = 0]

\* A worker of the ThreadPoolExecutor takes the submitted call.
F_Start(k) ==
    /\ impl = "download"
    /\ fetch[k].st = "queued"
    /\ Cardinality(Running) < max_workers
    /\ fetch' = [fetch EXCEPT ![k].st = "check"]
    /\ UNCHANGED <<cfgVars, libVars, exitVars, dlVars, abort_at, event_abort, event_pause, fs, wsLive, nextWs, trk, http_errors>>

\* Head of "for attempt in range(1, retries + 1)": the abort check.
F_Check(k) ==
    /\ impl = "download"
    /\ fetch[k].st = "check"
    /\ fetch' = [fetch EXCEPT
                   ![k].st = IF fetch[k].attempt > retries \/ event_abort THEN "done" ELSE "pause",
                   ![k].attempt = IF fetch[k].attempt > retries \/ event_abort THEN 0 ELSE @,
                   ![k].tries = IF fetch[k].attempt <= retries /\ event_abort THEN 0 ELSE @,
                   ![k].ret = IF fetch[k].attempt > retries \/ event_abort THEN "fail" ELSE @,
                   ![k].why = IF fetch[k].attempt > retries THEN "exhausted"
                              ELSE IF event_abort THEN "abort" ELSE @]
    /\ UNCHANGED <<cfgVars, libVars, exitVars, dlVars, abort_at, event_abort, event_pause, fs, wsLive, nextWs, trk, http_errors>>

\* self.event_pause.wait(): returns at once when the event is set, otherwise
\* the thread blocks on the condition of the event.
F_PauseWait(k) ==
    /\ impl = "download"
    /\ fetch[k].st = "pause"
    /\ fetch' = [fetch EXCEPT ![k].st = IF event_pause THEN "request" ELSE "blocked"]
    /\ UNCHANGED <<cfgVars, libVars, exitVars, dlVars, abort_at, event_abort, event_pause, fs, wsLive, nextWs, trk, http_errors>>

\* A thread that was notified by event_pause.set() returns from wait(), whether
\* or not the event has been cleared again meanwhile.
F_Released(k) ==
    /\ impl = "download"
    /\ k \in Fetches
    /\ fetch[k].st = "released"
    /\ fetch' = [fetch EXCEPT ![k].st = "request"]
    /\ UNCHANGED <<cfgVars, libVars, exitVars, dlVars, abort_at, event_abort, event_pause, fs, wsLive, nextWs, trk, http_errors>>

\* client.stream("GET", url), raise_for_status(), filepath.open("wb"); a
\* client that was closed raises RuntimeError, which is no httpx.HTTPError.
F_Request(k) ==
    /\ impl = "download"
    /\ fetch[k].st = "request"
    /\ \/ /\ client = "open"
          /\ fs' = WriteFile(fs, fetch[k].path, Content(<<>>))
          /\ fetch' = [fetch EXCEPT ![k].st = "body", ![k].written = 0, ![k].tries = @ + 1]
          /\ http_errors' = http_errors
       \/ /\ client = "open"
          /\ MayFail(k)
          /\ http_errors' = http_errors + 1
          /\ fs' = IF Exists(fs, fetch[k].path) THEN Unlink(fs, fetch[k].path) ELSE fs
          /\ fetch' = [fetch EXCEPT
                         ![k].st = IF fetch[k].attempt < retries - 1 THEN "sleep" ELSE "check",
                         ![k].attempt = IF fetch[k].attempt < retries - 1 THEN @ ELSE @ + 1,
                         ![k].sleep_time = IF fetch[k].attempt < retries - 1
                                           THEN 2 ^ fetch[k].attempt ELSE 0,
                         ![k].tries = @ + 1]
       \/ /\ fs' = IF Exists(fs, fetch[k].path) THEN Unlink(fs, fetch[k].path) ELSE fs
          /\ fetch' = [fetch EXCEPT ![k].st = "done", ![k].ret = "fail", ![k].attempt = 0,
                                    ![k].why = "unexpected", ![k].tries = 0]
          /\ http_errors' = http_errors
    /\ UNCHANGED <<cfgVars, libVars, exitVars, dlVars, abort_at, event_abort, event_pause, wsLive, nextWs, trk>>

\* for chunk in response.iter_bytes(...): abort check, f.write(chunk)
F_Body(k) ==
    /\ impl = "download"
    /\ fetch[k].st = "body"
    /\ IF fetch[k].written < NChunks
       THEN \/ /\ event_abort
               /\ fetch' = [fetch EXCEPT ![k].st = "done", ![k].ret = "fail", ![k].why = "abort",
                                         ![k].attempt = 0, ![k].tries = 0]
               /\ UNCHANGED <<fs, http_errors>>
            \/ /\ ~event_abort
               /\ LET t == k[1]
                      p == k[2]
                      c == fetch[k].written + 1
                      old == fs[fetch[k].path]
                  IN  fs' = WriteFile(fs, fetch[k].path,
                              [old EXCEPT !.data = Append(@, Served(trk[t].stream, p)[c])])
               /\ fetch' = [fetch EXCEPT ![k].written = @ + 1]
               /\ http_errors' = http_errors
            \/ AfterHttpError(k)
       ELSE /\ fetch' = [fetch EXCEPT ![k].st = "done", ![k].ret = "ok", ![k].why = "ok",
                                      ![k].attempt = 0, ![k].written = 0, ![k].tries = 0]
            /\ UNCHANGED <<fs, http_errors>>
    /\ UNCHANGED <<cfgVars, libVars, exitVars, dlVars, abort_at, event_abort, event_pause, wsLive, nextWs, trk>>

\* sleep(2**attempt), then the next iteration
F_Sleep(k) ==
    /\ impl = "download"
    /\ fetch[k].st = "sleep"
    /\ fetch' = [fetch EXCEPT ![k].st = "check", ![k].attempt = @ + 1, ![k].sleep_time = 0]
    /\ UNCHANGED <<cfgVars, libVars, exitVars, dlVars, abort_at, event_abort, event_pause, fs, wsLive, nextWs, trk, http_errors>>

----------------------------------------------------------------------------
(* download.py: pause / resume / stop and the signal handler *)

pause ==
    /\ impl = "download"
    /\ event_pause
    /\ \E k \in Fetches : ~FetchDone(k)
    /\ event_pause' = FALSE
    /\ UNCHANGED <<cfgVars, libVars, exitVars, dlVars, abort_at, event_abort, fs, wsLive, nextWs, trk, fetch, http_errors>>

\* event_pause.set(): notify_all wakes every thread blocked in wait().
notify_all(f) == [k \in DOMAIN f |-> IF f[k].st = "blocked" THEN [f[k] EXCEPT !.st = "released"]
                                     ELSE f[k]]

\* A resume that sets the flag of the event without waking the waiters.
\* PauseGate does not hold of it.
resume_without_notify ==
    /\ impl = "download"
    /\ ~event_pause
    /\ event_pause' = TRUE
    /\ UNCHANGED <<cfgVars, libVars, exitVars, dlVars, abort_at, event_abort, fs, wsLive, nextWs, trk, fetch, http_errors>>

resume ==
    /\ impl = "download"
    /\ ~event_pause
    /\ event_pause' = TRUE
    /\ fetch' = notify_all(fetch)
    /\ UNCHANGED <<cfgVars, libVars, exitVars, dlVars, abort_at, event_abort, fs, wsLive, nextWs, trk, http_errors>>

stop ==
    /\ impl = "download"
    /\ ~event_abort \/ ~event_pause
    /\ \E t \in DOMAIN trk : trk[t].pc # "done"
    /\ event_abort' = TRUE
    /\ event_pause' = TRUE
    /\ fetch' = notify_all(fetch)
    /\ abort_at' = IF event_abort THEN abort_at
                   ELSE IF \E t \in DOMAIN trk : trk[t].pc = "dispatch"
                   THEN "dispatch" ELSE "elsewhere"
    /\ UNCHANGED <<cfgVars, libVars, exitVars, dlVars, fs, wsLive, nextWs, trk, http_errors>>

NotExited == [calls |-> 0, cleanups |-> 0, raised |-> FALSE]

\* What self.client.close() may do.
CloseOutcomes == {"closed", "RuntimeError"}

\* A _cleanup without its try/except.  EmergencyCleanup does not hold of it.
cleanup_unguarded(outcome) == [client |-> "closed", raised |-> outcome = "RuntimeError"]

\* _cleanup: there is no attribute "executor"; self.client.close(), whose
\* AttributeError or RuntimeError is caught and logged.
cleanup(outcome) == [client |-> "closed", raised |-> FALSE]

\* signal_handler: event_abort.set(); _cleanup()
signal_handler ==
    /\ impl = "download"
    /\ ~event_abort
    /\ \E t \in DOMAIN trk : trk[t].pc # "done"
    /\ event_abort' = TRUE
    /\ abort_at' = IF \E t \in DOMAIN trk : trk[t].pc = "dispatch"
                   THEN "dispatch" ELSE "elsewhere"
    /\ \E outcome \in CloseOutcomes : client' = cleanup(outcome).client
    /\ UNCHANGED <<cfgVars, libVars, atexit, dlVars, event_pause, fs, wsLive, nextWs, trk, fetch, http_errors>>

\* emergency_cleanup, registered with atexit: it runs when the process exits,
\* after download_track has returned and the worker threads have been joined.
emergency_cleanup ==
    /\ impl = "download"
    /\ \A t \in DOMAIN trk : trk[t].pc = "done"
    /\ atexit.calls < MaxExitCalls
    /\ IF ~event_abort
       THEN /\ event_abort' = TRUE
            /\ abort_at' = "elsewhere"
            /\ \E outcome \in CloseOutcomes :
                 /\ client' = cleanup(outcome).client
                 /\ atexit' = [calls |-> atexit.calls + 1, cleanups |-> atexit.cleanups + 1,
                               raised |-> cleanup(outcome).raised]
       ELSE /\ atexit' = [atexit EXCEPT !.calls = @ + 1, !.raised = FALSE]
            /\ UNCHANGED <<event_abort, abort_at, client>>
    /\ UNCHANGED <<cfgVars, libVars, dlVars, event_pause, fs, wsLive, nextWs, trk, fetch, http_errors>>

----------------------------------------------------------------------------
(* download.py: Download.download_track and what it calls *)

Ret(t, r) == [trk EXCEPT ![t].pc = "done", ![t].result = r]

\* The durations a track may have: negative, zero, positive.
Durations == {-1, 0, 1}

\* return track.available and track.duration > 0
validate_track(available, duration) == available /\ duration > 0

\* What _validate_track may return of a track.
Validations == {validate_track(available, duration) : available \in BOOLEAN, duration \in Durations}

\* download_track up to the stream resolution: abort check, _validate_track.
DT_Start(t) ==
    /\ impl = "download"
    /\ trk[t].pc = "start"
    /\ \E valid \in Validations :
         trk' = IF event_abort \/ ~valid THEN Ret(t, "false")
                ELSE [trk EXCEPT ![t].pc = "resolve"]
    /\ UNCHANGED <<cfgVars, libVars, exitVars, dlVars, abort_at, event_abort, event_pause, fs, wsLive, nextWs, fetch, http_errors>>

\* track_service.get_stream_info(...), then _check_if_exists.
DT_Resolve(t) ==
    /\ impl = "download"
    /\ trk[t].pc = "resolve"
    /\ \/ trk' = Ret(t, "false")                    \* StreamInfoError
       \/ trk' = Ret(t, "raised")                   \* any other exception
       \/ \E s \in Catalog :
            LET final == FinalName(t, s.ext)
                should_skip == Exists(fs, <<Dest, final>>) /\ skip_existing
            IN  trk' = IF should_skip THEN Ret(t, "true")
                       ELSE [trk EXCEPT ![t].pc = "workspace", ![t].stream = s,
                                        ![t].final = final]
    /\ UNCHANGED <<cfgVars, libVars, exitVars, dlVars, abort_at, event_abort, event_pause, fs, wsLive, nextWs, fetch, http_errors>>

\* with self.download_workspace(track.name) as workspace:
DT_Workspace(t) ==
    /\ impl = "download"
    /\ trk[t].pc = "workspace"
    /\ nextWs' = nextWs + 1
    /\ wsLive' = wsLive \cup {nextWs + 1}
    /\ trk' = [trk EXCEPT ![t].pc = "process", ![t].ws = nextWs + 1]
    /\ UNCHANGED <<cfgVars, libVars, exitVars, dlVars, abort_at, event_abort, event_pause, fs, fetch, http_errors>>

\* _process_download: abort check, then _download_to_workspace starts.
DT_Process(t) ==
    /\ impl = "download"
    /\ trk[t].pc = "process"
    /\ LET s == trk[t].stream
           w == trk[t].ws
       IN  IF event_abort
           THEN /\ trk' = [trk EXCEPT ![t].pc = "cleanup", ![t].result = "false"]
                /\ fetch' = fetch
           ELSE IF is_dash(s)
           THEN /\ trk' = [trk EXCEPT ![t].pc = "dispatch"]
                /\ fetch' = fetch
           ELSE /\ trk' = [trk EXCEPT ![t].pc = "single"]
                /\ fetch' = (<<t, 1>> :> NewFetch(<<w, PlainName("download", s.ext)>>, "check"))
                            @@ fetch
    /\ UNCHANGED <<cfgVars, libVars, exitVars, dlVars, abort_at, event_abort, event_pause, fs, wsLive, nextWs, http_errors>>

\* _download_single_file returned; "if not downloaded_file or not exists".
DT_Single(t) ==
    /\ impl = "download"
    /\ trk[t].pc = "single"
    /\ fetch[<<t, 1>>].st = "done"
    /\ trk' = IF fetch[<<t, 1>>].ret = "ok" /\ Exists(fs, fetch[<<t, 1>>].path)
              THEN [trk EXCEPT ![t].pc = "post", ![t].file = fetch[<<t, 1>>].path[2]]
              ELSE [trk EXCEPT ![t].pc = "cleanup", ![t].result = "false"]
    /\ UNCHANGED <<cfgVars, libVars, exitVars, dlVars, abort_at, event_abort, event_pause, fs, wsLive, nextWs, fetch, http_errors>>

\* The dispatch loop without its event_abort check: it keeps submitting after
\* an abort. AbortStopsDispatch does not hold of it.
DT_DispatchIgnoringAbort(t) ==
    /\ impl = "download"
    /\ trk[t].pc = "dispatch"
    /\ LET s == trk[t].stream
           p == Len(trk[t].futures) + 1
           w == trk[t].ws
       IN  IF p > Len(s.urls)
           THEN /\ trk' = [trk EXCEPT ![t].pc = "collect", ![t].j = 1]
                /\ fetch' = fetch
           ELSE /\ trk' = [trk EXCEPT ![t].futures = Append(@, p)]
                /\ fetch' = (<<t, p>> :> NewFetch(<<w, SegName(segment_id(s, p), s.ext)>>, "queued"))
                            @@ fetch
    /\ UNCHANGED <<cfgVars, libVars, exitVars, dlVars, abort_at, event_abort, event_pause, fs, wsLive, nextWs, http_errors>>

\* One iteration of "for url in stream_info.urls": abort check, submit.
DT_Dispatch(t) ==
    /\ impl = "download"
    /\ trk[t].pc = "dispatch"
    /\ LET s == trk[t].stream
           p == Len(trk[t].futures) + 1
           w == trk[t].ws
       IN  IF p > Len(s.urls) \/ event_abort
           THEN /\ trk' = [trk EXCEPT ![t].pc = "collect", ![t].j = 1]
                /\ fetch' = fetch
           ELSE /\ trk' = [trk EXCEPT ![t].futures = Append(@, p)]
                /\ fetch' = (<<t, p>> :> NewFetch(<<w, SegName(segment_id(s, p), s.ext)>>, "queued"))
                            @@ fetch
    /\ UNCHANGED <<cfgVars, libVars, exitVars, dlVars, abort_at, event_abort, event_pause, fs, wsLive, nextWs, http_errors>>

\* One iteration of "for future, segment_file, _ in futures".
DT_Collect(t) ==
    /\ impl = "download"
    /\ trk[t].pc = "collect"
    /\ LET j == trk[t].j
           k == <<t, trk[t].futures[j]>>
       IN  IF j > Len(trk[t].futures)
           THEN /\ trk' = [trk EXCEPT ![t].pc = "join", ![t].ret = "files"]
                /\ fetch' = fetch
           ELSE IF event_abort
           THEN /\ trk' = [trk EXCEPT ![t].pc = "join", ![t].ret = "None"]
                /\ fetch' = IF fetch[k].st = "queued"
                            THEN [fetch EXCEPT ![k].st = "cancelled"] ELSE fetch
           ELSE \/ /\ fetch[k].st = "done"
                   /\ fetch' = fetch
                   /\ trk' = IF fetch[k].ret = "ok"
                             THEN [trk EXCEPT ![t].j = @ + 1,
                                              ![t].segment_files = Append(@, fetch[k].path)]
                             ELSE [trk EXCEPT ![t].pc = "join", ![t].ret = "None"]
                \/ /\ fetch[k].st # "done"          \* future.result(timeout=60) timed out
                   /\ fetch' = fetch
                   /\ trk' = [trk EXCEPT ![t].pc = "join", ![t].ret = "None"]
    /\ UNCHANGED <<cfgVars, libVars, exitVars, dlVars, abort_at, event_abort, event_pause, fs, wsLive, nextWs, http_errors>>

\* Leaving "with ThreadPoolExecutor(...)": shutdown(wait=True); then the
\* length check of segment_files.
DT_Join(t) ==
    /\ impl = "download"
    /\ trk[t].pc = "join"
    /\ \A k \in Fetches : FetchDone(k)
    /\ trk' = IF trk[t].ret = "None" \/ Len(trk[t].segment_files) # Len(trk[t].stream.urls)
              THEN [trk EXCEPT ![t].pc = "cleanup", ![t].result = "false"]
              ELSE [trk EXCEPT ![t].pc = "decrypt", ![t].j = 1]
    /\ UNCHANGED <<cfgVars, libVars, exitVars, dlVars, abort_at, event_abort, event_pause, fs, wsLive, nextWs, fetch, http_errors>>

\* A decrypt_file that copies the bytes without decrypting them.
\* FinalizedPayload does not hold of it.
decrypt_file_copying(f, src, dst) == Unlink(WriteFile(f, dst, f[src]), src)

\* A decrypt_file that writes the decrypted file and leaves the encrypted one.
\* SegmentsReplacedByDecrypted does not hold of it.
decrypt_file_keeping_source(f, src, dst) ==
    WriteFile(f, dst, [f[src] EXCEPT !.data = XorStream(@)])

\* decrypt_file(encrypted, decrypted, key, nonce): write the decrypted file,
\* then unlink the encrypted one.
decrypt_file(f, src, dst) == Unlink(WriteFile(f, dst, [f[src] EXCEPT !.data = XorStream(@)]), src)

\* "if stream_info.is_encrypted": decrypt_security_token, then one
\* iteration of "for segment_file in segment_files" per step.
DT_Decrypt(t) ==
    /\ impl = "download"
    /\ trk[t].pc = "decrypt"
    /\ LET s == trk[t].stream
           j == trk[t].j
           src == trk[t].segment_files[j]
           dst == <<src[1], with_suffix(src[2], <<".decrypted", s.ext>>)>>
       IN  IF ~s.enc \/ j > Len(trk[t].segment_files)
           THEN /\ trk' = [trk EXCEPT ![t].pc = "merge"]
                /\ fs' = fs
           ELSE \/ /\ fs' = decrypt_file(fs, src, dst)
                   /\ trk' = [trk EXCEPT ![t].j = @ + 1, ![t].segment_files[j] = dst,
                                         ![t].keys = IF j = 1 THEN @ + 1 ELSE @]
                \/ /\ j = 1                          \* decrypt_security_token raises
                   /\ fs' = fs
                   /\ trk' = [trk EXCEPT ![t].pc = "cleanup", ![t].result = "None"]
    /\ UNCHANGED <<cfgVars, libVars, exitVars, dlVars, abort_at, event_abort, event_pause, wsLive, nextWs, fetch, http_errors>>

\* _merge_segments: sort by get_segment_id, concatenate into merged<ext>.
DT_Merge(t) ==
    /\ impl = "download"
    /\ trk[t].pc = "merge"
    /\ LET s == trk[t].stream
           merged == PlainName("merged", s.ext)
           sorted_segments == SortedSegments(trk[t].segment_files)
       IN  /\ fs' = WriteFile(fs, <<trk[t].ws, merged>>,
                              Content(ConcatExisting(fs, sorted_segments)))
           /\ trk' = [trk EXCEPT ![t].pc = "containerize", ![t].file = merged]
    /\ UNCHANGED <<cfgVars, libVars, exitVars, dlVars, abort_at, event_abort, event_pause, wsLive, nextWs, fetch, http_errors>>

\* _containerize_merged_file: ffmpeg -c copy replaces the merged file, unless
\* ffmpeg is missing, the codec is FLAC, or ffmpeg fails.
DT_Containerize(t) ==
    /\ impl = "download"
    /\ trk[t].pc = "containerize"
    /\ LET p == <<trk[t].ws, trk[t].file>>
       IN  \/ fs' = fs
           \/ fs' = WriteFile(fs, p, [fs[p] EXCEPT !.box = "containerized"])
    /\ trk' = [trk EXCEPT ![t].pc = "post"]
    /\ UNCHANGED <<cfgVars, libVars, exitVars, dlVars, abort_at, event_abort, event_pause, wsLive, nextWs, fetch, http_errors>>

\* _post_process: decrypt a single file, extract FLAC from an MQA stream.
DT_PostProcess(t) ==
    /\ impl = "download"
    /\ trk[t].pc = "post"
    /\ LET s == trk[t].stream
           w == trk[t].ws
           temp == trk[t].file
           decrypted == with_suffix(temp, <<".decrypted">>)
           dec == s.enc /\ ~is_dash(s)
           f1 == IF dec THEN decrypt_file(fs, <<w, temp>>, <<w, decrypted>>) ELSE fs
           temp1 == IF dec THEN decrypted ELSE temp
           output == with_suffix(temp1, <<".flac">>)
           derived == IF dec THEN trk[t].keys + 1 ELSE trk[t].keys
       IN  \/ /\ fs' = f1                            \* no extraction
              /\ trk' = [trk EXCEPT ![t].pc = "finalize", ![t].file = temp1, ![t].keys = derived]
           \/ /\ s.ext = ".flac"                     \* is_mqa: _extract_flac
              /\ \E made \in BOOLEAN :
                   /\ fs' = LET f2 == Unlink(f1, <<w, temp1>>)
                            IN  IF made
                                THEN WriteFile(f2, <<w, output>>,
                                               [f1[<<w, temp1>>] EXCEPT !.box = "extracted"])
                                ELSE f2
                   /\ trk' = IF made
                             THEN [trk EXCEPT ![t].pc = "finalize", ![t].file = output,
                                              ![t].keys = derived]
                             ELSE [trk EXCEPT ![t].pc = "cleanup", ![t].result = "false",
                                              ![t].keys = derived]
           \/ /\ dec                                 \* decrypt_security_token raises
              /\ fs' = fs
              /\ trk' = [trk EXCEPT ![t].pc = "cleanup", ![t].result = "false"]
    /\ UNCHANGED <<cfgVars, libVars, exitVars, dlVars, abort_at, event_abort, event_pause, wsLive, nextWs, fetch, http_errors>>

\* _finalize_download: _correct_file_extension, rename, metadata (a failed
\* write is logged and ignored).  When rename raises, the handler's call
\* fn_logger.exception("... {}: {}", final_path.name) has two placeholders and
\* one argument: with a sink attached the formatting raises IndexError, which
\* leaves _finalize_download before the unlink and is caught in download_track;
\* without a sink the handler unlinks the temp file and returns False.
DT_Finalize(t) ==
    /\ impl = "download"
    /\ trk[t].pc = "finalize"
    /\ LET w == trk[t].ws
           temp == <<w, trk[t].file>>
           final == trk[t].final
       IN  \E flac \in BOOLEAN, tagged \in BOOLEAN :
             LET corrected == IF flac /\ suffix(final) = ".m4a"
                              THEN with_suffix(final, <<".flac">>) ELSE final
             IN  \/ /\ fs' = WriteFile(Unlink(fs, temp), <<Dest, corrected>>,
                                       [fs[temp] EXCEPT !.tags = tagged])
                    /\ trk' = [trk EXCEPT ![t].pc = "cleanup", ![t].result = "true",
                                          ![t].success = "true",
                                          ![t].metadata = IF tagged THEN "written" ELSE "failed",
                                          ![t].final = corrected]
                 \/ /\ fs' = fs                     \* rename raises, the handler raises
                    /\ trk' = [trk EXCEPT ![t].pc = "cleanup", ![t].result = "false",
                                          ![t].success = "raised"]
                 \/ /\ fs' = Unlink(fs, temp)       \* rename raises, no sink: unlink temp
                    /\ trk' = [trk EXCEPT ![t].pc = "cleanup", ![t].result = "false",
                                          ![t].success = "false"]
    /\ UNCHANGED <<cfgVars, libVars, exitVars, dlVars, abort_at, event_abort, event_pause, wsLive, nextWs, fetch, http_errors>>

\* Leaving "with self.download_workspace(...)": TemporaryDirectory cleanup.
DT_Cleanup(t) ==
    /\ impl = "download"
    /\ trk[t].pc = "cleanup"
    /\ wsLive' = wsLive \ {trk[t].ws}
    /\ fs' = RemoveTree(fs, trk[t].ws)
    /\ trk' = [trk EXCEPT ![t].pc = "done"]
    /\ UNCHANGED <<cfgVars, libVars, exitVars, dlVars, abort_at, event_abort, event_pause, nextWs, fetch, http_errors>>

----------------------------------------------------------------------------
(* db.py: the downloads table, db[t] = the rows of track t in insertion order *)

\* quality.lower().replace(" ", "_"), on the strings that occur
normalize(q) ==
    CASE q = "LOSSLESS" -> "lossless"
      [] q = "HI RES" -> "hi_res"
      [] OTHER -> q

\* quality_rank.get(normalized, 0)
quality_rank(q) ==
    CASE q \in {"hi_res_lossless", "hi_res"} -> 4
      [] q \in {"high_lossless", "lossless"} -> 3
      [] q \in {"high", "low_320k"} -> 2
      [] q \in {"low_96k", "low"} -> 1
      [] OTHER -> 0

is_track_downloaded(t) == db[t] # <<>>

\* The loop of get_best_quality_downloaded; "" stands for None.
RECURSIVE BestOf(_, _, _)
BestOf(downloads, best_quality, best_rank) ==
    IF downloads = <<>> THEN best_quality
    ELSE LET quality == downloads[1].quality
             rank == quality_rank(normalize(quality))
         IN  IF quality # "" /\ rank > best_rank
             THEN BestOf(Tail(downloads), quality, rank)
             ELSE BestOf(Tail(downloads), best_quality, best_rank)

get_best_quality_downloaded(t) == BestOf(db[t], "", -1)

\* A comparison that also upgrades at equal rank.
\* SkipWithoutDownload does not hold of it.
should_upgrade_quality_or_equal(t, new_quality) ==
    LET existing_quality == get_best_quality_downloaded(t)
    IN  IF existing_quality = "" THEN TRUE
        ELSE quality_rank(normalize(new_quality)) >= quality_rank(normalize(existing_quality))

should_upgrade_quality(t, new_quality) ==
    LET existing_quality == get_best_quality_downloaded(t)
    IN  IF existing_quality = "" THEN TRUE
        ELSE quality_rank(normalize(new_quality)) > quality_rank(normalize(existing_quality))

\* file_size = final_path.stat().st_size if final_path.exists() else None (-1)
file_size(p) == IF Exists(fs, p) THEN Len(fs[p].data) ELSE -1

\* mark_track_downloaded(track, file_path=str(final_path), file_size, quality)
mark_track_downloaded(t, final, quality) ==
    [db EXCEPT ![t] = Append(@, [quality |-> quality, file_path |-> final,
                                 file_size |-> file_size(<<Dest, final>>)])]

----------------------------------------------------------------------------
(* dl.py: Download.process_track, one asyncio task per track of the batch *)

\* The event loop runs one task at a time; a task keeps running until it
\* awaits something that is not ready.
Runnable(t) == impl = "dl" /\ cur \in {0, t}

needs_flac_extraction(s) == s.codec = "FLAC" /\ s.ext # ".flac"

\* total_batches = (len(tracks) + self.batch_size - 1) // self.batch_size
total_batches == (Len(trk) + orch.batch_size - 1) \div orch.batch_size

Min(a, b) == IF a < b THEN a ELSE b

\* A slice that takes one track more than batch_size.  BatchesPartition does
\* not hold of it.
SliceOneMore(batch_num) ==
    LET start_idx == batch_num * orch.batch_size
        end_idx == Min(start_idx + orch.batch_size + 1, Len(trk))
    IN  {t \in DOMAIN trk : start_idx < t /\ t <= end_idx}

\* batch = tracks[start_idx:end_idx], as the set of the positions (from 1)
Slice(batch_num) ==
    LET start_idx == batch_num * orch.batch_size
        end_idx == Min(start_idx + orch.batch_size, Len(trk))
    IN  {t \in DOMAIN trk : start_idx < t /\ t <= end_idx}

\* "for batch_num in range(total_batches)" for a list of n tracks: the first
\* batch is processed, or the loop is not entered.
LoopHead(n, batch_size) ==
    IF (n + batch_size - 1) \div batch_size > 0 THEN "batch" ELSE "returned"

\* The batch a track falls in: tracks[start_idx:end_idx] of batch_num.
BatchOf(t) == (t - 1) \div orch.batch_size

\* Tasks exist for the tracks of every batch, whether it is being processed
\* or not. BatchesInSequence does not hold of it.
InAnyBatch(t) == t \in DOMAIN trk

\* _process_batch(batch) creates the tasks of the tracks of this batch.
InCurrentBatch(t) == t \in DOMAIN trk /\ BatchOf(t) = orch.batch_num

\* A process_with_semaphore that enters process_track without a free permit.
\* SemaphoreBound does not hold of it.
PT_StartWithoutPermit(t) ==
    /\ Runnable(t)
    /\ batch.st = "running"
    /\ InCurrentBatch(t)
    /\ trk[t].pc = "start"
    /\ \E valid \in BOOLEAN :
         IF valid
         THEN /\ trk' = [trk EXCEPT ![t].pc = "lock"]
              /\ semaphore' = semaphore - 1
              /\ cur' = t
         ELSE /\ trk' = Ret(t, "false")
              /\ semaphore' = semaphore
              /\ cur' = 0
    /\ UNCHANGED <<cfgVars, libVars, exitVars, threadVars, orch, elapsed, api_lock, db, batch, fs, wsLive, nextWs, fetch, http_errors>>

\* What _validate_track may return: a track that went on to its stream in an
\* earlier call is valid.
Validity(t) == IF trk[t].stream = NoStream THEN Validations ELSE {TRUE}

\* A process_track that waits for the rate limiter before it validates the
\* track.  InvalidTrackReturnsAtOnce does not hold of it.
PT_StartRateLimitedFirst(t) ==
    /\ Runnable(t)
    /\ batch.st = "running"
    /\ InCurrentBatch(t)
    /\ trk[t].pc = "start"
    /\ semaphore > 0
    /\ \E valid \in Validity(t) :
         IF valid
         THEN /\ trk' = [trk EXCEPT ![t].pc = "lock"]
              /\ semaphore' = semaphore - 1
              /\ cur' = t
              /\ elapsed' = elapsed
         ELSE /\ trk' = Ret(t, "false")
              /\ semaphore' = semaphore
              /\ cur' = 0
              /\ elapsed' = 0
    /\ UNCHANGED <<cfgVars, libVars, exitVars, threadVars, orch, api_lock, db, batch, fs, wsLive, nextWs, fetch, http_errors>>

\* process_with_semaphore: "async with semaphore", then _validate_track.
PT_Start(t) ==
    /\ Runnable(t)
    /\ batch.st = "running"
    /\ InCurrentBatch(t)
    /\ trk[t].pc = "start"
    /\ semaphore > 0
    /\ \E valid \in Validity(t) :
         IF valid
         THEN /\ trk' = [trk EXCEPT ![t].pc = "lock"]
              /\ semaphore' = semaphore - 1
              /\ cur' = t
         ELSE /\ trk' = Ret(t, "false")
              /\ semaphore' = semaphore
              /\ cur' = 0
    /\ UNCHANGED <<cfgVars, libVars, exitVars, threadVars, orch, elapsed, api_lock, db, batch, fs, wsLive, nextWs, fetch, http_errors>>

\* "async with self.api_lock" while another task holds the lock: suspend.
PT_LockWait(t) ==
    /\ impl = "dl"
    /\ cur = t
    /\ trk[t].pc = "lock"
    /\ api_lock # 0
    /\ cur' = 0
    /\ UNCHANGED <<cfgVars, libVars, exitVars, threadVars, orch, elapsed, api_lock, semaphore, db, batch, fs, wsLive, nextWs, trk,
                   fetch, http_errors>>

\* An api_lock that is handed out while another task holds it.
\* OneResolutionAtATime does not hold of it.
PT_LockNotExclusive(t) ==
    /\ Runnable(t)
    /\ trk[t].pc = "lock"
    /\ api_lock' = t
    /\ cur' = t
    /\ trk' = [trk EXCEPT ![t].pc = "rate"]
    /\ UNCHANGED <<cfgVars, libVars, exitVars, threadVars, orch, elapsed, semaphore, db, batch, fs, wsLive, nextWs, fetch, http_errors>>

\* "async with self.api_lock": acquired.
PT_Lock(t) ==
    /\ Runnable(t)
    /\ trk[t].pc = "lock"
    /\ api_lock = 0
    /\ api_lock' = t
    /\ cur' = t
    /\ trk' = [trk EXCEPT ![t].pc = "rate"]
    /\ UNCHANGED <<cfgVars, libVars, exitVars, threadVars, orch, elapsed, semaphore, db, batch, fs, wsLive, nextWs, fetch, http_errors>>

\* time() moves on: the clock ticks, and the sleeps in progress get shorter.
\* Ticks are counted while a track may still call the rate limiter.
Tick ==
    /\ impl = "dl"
    /\ \E t \in DOMAIN trk : trk[t].pc \in {"start", "lock", "rate", "rate_sleep"}
    /\ elapsed < min_interval \/ \E t \in DOMAIN trk : trk[t].wake > 0
    /\ elapsed' = IF elapsed < min_interval THEN elapsed + 1 ELSE elapsed
    /\ trk' = [t \in DOMAIN trk |->
                 [trk[t] EXCEPT !.wake = IF @ > 0 THEN @ - 1 ELSE 0]]
    /\ UNCHANGED <<cfgVars, libVars, exitVars, threadVars, orch, cur, api_lock, semaphore, db, batch, fs, wsLive, nextWs,
                   fetch, http_errors>>

\* A rate limiter that records the call without ever sleeping.
\* MinIntervalBetweenCalls does not hold of it.
PT_RateWithoutSleep(t) ==
    /\ Runnable(t)
    /\ trk[t].pc = "rate"
    /\ trk' = [trk EXCEPT ![t].pc = "resolve"]
    /\ elapsed' = 0
    /\ cur' = t
    /\ UNCHANGED <<cfgVars, libVars, exitVars, threadVars, orch, api_lock, semaphore, db, batch, fs, wsLive, nextWs, fetch,
                   http_errors>>

\* await self.rate_limiter.wait(): now = time(); when the last call is less
\* than min_interval ago, sleep for the rest; otherwise last_call = time().
PT_Rate(t) ==
    /\ Runnable(t)
    /\ trk[t].pc = "rate"
    /\ IF elapsed < min_interval
       THEN /\ trk' = [trk EXCEPT ![t].pc = "rate_sleep", ![t].wake = min_interval - elapsed]
            /\ elapsed' = elapsed
            /\ cur' = 0
       ELSE /\ trk' = [trk EXCEPT ![t].pc = "resolve"]
            /\ elapsed' = 0
            /\ cur' = t
    /\ UNCHANGED <<cfgVars, libVars, exitVars, threadVars, orch, api_lock, semaphore, db, batch, fs, wsLive, nextWs, fetch,
                   http_errors>>

\* The async_sleep of RateLimiter.wait is over: self.last_call = time().
PT_RateWake(t) ==
    /\ impl = "dl"
    /\ cur = 0
    /\ trk[t].pc = "rate_sleep"
    /\ trk[t].wake = 0
    /\ trk' = [trk EXCEPT ![t].pc = "resolve"]
    /\ elapsed' = 0
    /\ cur' = t
    /\ UNCHANGED <<cfgVars, libVars, exitVars, threadVars, orch, api_lock, semaphore, db, batch, fs, wsLive, nextWs, fetch,
                   http_errors>>

\* A resolution step that gives the lock back only when it has a stream.
\* LockReleasedOnEveryPath does not hold of it.
PT_ResolveKeepingLock(t) ==
    /\ Runnable(t)
    /\ trk[t].pc = "resolve"
    /\ \/ /\ trk[t].stream = NoStream
          /\ trk' = Ret(t, "false")
          /\ semaphore' = semaphore + 1
          /\ cur' = 0
          /\ api_lock' = api_lock
       \/ /\ trk[t].stream = NoStream
          /\ trk' = Ret(t, "raised")
          /\ semaphore' = semaphore + 1
          /\ cur' = 0
          /\ api_lock' = api_lock
       \/ /\ \E s \in (IF trk[t].stream = NoStream THEN Catalog ELSE {trk[t].stream}) :
               trk' = [trk EXCEPT ![t].pc = "dbcheck", ![t].stream = s]
          /\ semaphore' = semaphore
          /\ cur' = t
          /\ api_lock' = 0
    /\ UNCHANGED <<cfgVars, libVars, exitVars, threadVars, orch, elapsed, db, batch, fs, wsLive, nextWs, fetch, http_errors>>

\* _get_cached_stream_info under the lock; only StreamInfoError is caught.
\* A stream that is in _stream_cache is returned without a call of
\* get_stream_info.
PT_Resolve(t) ==
    /\ Runnable(t)
    /\ trk[t].pc = "resolve"
    /\ api_lock' = 0
    /\ \/ /\ trk[t].stream = NoStream
          /\ trk' = Ret(t, "false")                 \* StreamInfoError
          /\ semaphore' = semaphore + 1
          /\ cur' = 0
       \/ /\ trk[t].stream = NoStream
          /\ trk' = Ret(t, "raised")                \* any other exception
          /\ semaphore' = semaphore + 1
          /\ cur' = 0
       \/ /\ \E s \in (IF trk[t].stream = NoStream THEN Catalog ELSE {trk[t].stream}) :
               trk' = [trk EXCEPT ![t].pc = "dbcheck", ![t].stream = s]
          /\ semaphore' = semaphore
          /\ cur' = t
    /\ UNCHANGED <<cfgVars, libVars, exitVars, threadVars, orch, elapsed, db, batch, fs, wsLive, nextWs, fetch, http_errors>>

\* "if not self.skip_db and self.db.is_track_downloaded(track)": the quality
\* comparison against the database.
PT_DbCheck(t) ==
    /\ Runnable(t)
    /\ trk[t].pc = "dbcheck"
    /\ LET new_quality_str == trk[t].stream.quality
           existing_quality == get_best_quality_downloaded(t)
       IN  IF ~skip_db /\ is_track_downloaded(t)
           THEN IF ~should_upgrade_quality(t, new_quality_str)
                THEN /\ trk' = [trk EXCEPT ![t].pc = "done", ![t].result = "true",
                                           ![t].existing_quality = existing_quality]
                     /\ semaphore' = semaphore + 1
                     /\ cur' = 0
                ELSE /\ trk' = [trk EXCEPT ![t].pc = "exists",
                                           ![t].existing_quality = existing_quality]
                     /\ semaphore' = semaphore
                     /\ cur' = t
           ELSE /\ trk' = [trk EXCEPT ![t].pc = "exists"]
                /\ semaphore' = semaphore
                /\ cur' = t
    /\ UNCHANGED <<cfgVars, libVars, exitVars, threadVars, orch, elapsed, api_lock, db, batch, fs, wsLive, nextWs, fetch, http_errors>>

\* _check_if_exists; a skipped file is added to the database if it is not there
\* (a failing insert is logged and ignored).
PT_CheckExists(t) ==
    /\ Runnable(t)
    /\ trk[t].pc = "exists"
    /\ LET s == trk[t].stream
           final == FinalName(t, s.ext)
           should_skip == Exists(fs, <<Dest, final>>) /\ skip_existing
       IN  IF should_skip
           THEN /\ trk' = [trk EXCEPT ![t].pc = "done", ![t].result = "true", ![t].final = final]
                /\ IF ~skip_db /\ ~is_track_downloaded(t)
                   THEN \/ db' = mark_track_downloaded(t, final, s.quality)
                        \/ db' = db
                   ELSE db' = db
                /\ semaphore' = semaphore + 1
                /\ cur' = 0
           ELSE /\ trk' = [trk EXCEPT ![t].pc = "workspace", ![t].final = final]
                /\ db' = db
                /\ semaphore' = semaphore
                /\ cur' = t
    /\ UNCHANGED <<cfgVars, libVars, exitVars, threadVars, orch, elapsed, api_lock, batch, fs, wsLive, nextWs, fetch, http_errors>>

\* with self.download_workspace(track.name) as workspace:
PT_Workspace(t) ==
    /\ Runnable(t)
    /\ trk[t].pc = "workspace"
    /\ nextWs' = nextWs + 1
    /\ wsLive' = wsLive \cup {nextWs + 1}
    /\ trk' = [trk EXCEPT ![t].pc = "download", ![t].ws = nextWs + 1]
    /\ cur' = t
    /\ UNCHANGED <<cfgVars, libVars, exitVars, threadVars, orch, elapsed, api_lock, semaphore, db, batch, fs, fetch, http_errors>>

\* _process_download: a multi-URL stream starts one download_stream task per
\* URL and awaits them; a single-URL stream is fetched by _download_stream,
\* then "if not downloaded_file or not downloaded_file.exists()".
PT_Download(t) ==
    /\ Runnable(t)
    /\ trk[t].pc = "download"
    /\ LET s == trk[t].stream
           w == trk[t].ws
           file_extension == IF needs_flac_extraction(s) THEN ".flac" ELSE s.ext
           segment_file(p) == <<w, SegName(segment_id(s, p), file_extension)>>
           temp_file == PlainName("download", s.ext)
       IN  IF is_dash(s)
           THEN /\ fetch' = [p \in {t} \X (1..Len(s.urls)) |-> NewFetch(segment_file(p[2]), "queued")]
                            @@ fetch
                /\ trk' = [trk EXCEPT ![t].pc = "gather",
                                      ![t].segment_files = [p \in 1..Len(s.urls) |-> segment_file(p)]]
                /\ fs' = fs
                /\ cur' = 0
           ELSE /\ cur' = t
                /\ \/ /\ fs' = WriteFile(fs, <<w, temp_file>>, Content(Served(s, 1)))
                      /\ fetch' = (<<t, 1>> :> [NewFetch(<<w, temp_file>>, "done") EXCEPT
                                                 !.tries = 1, !.ret = "ok", !.why = "ok"]) @@ fetch
                      /\ trk' = [trk EXCEPT ![t].pc = "post", ![t].file = temp_file]
                   \/ /\ fs' = fs                    \* HTTPError: nothing was written
                      /\ fetch' = (<<t, 1>> :> [NewFetch(<<w, temp_file>>, "done") EXCEPT
                                                 !.tries = 1, !.ret = "fail", !.why = "http"]) @@ fetch
                      /\ trk' = [trk EXCEPT ![t].pc = "cleanup", ![t].result = "false"]
    /\ UNCHANGED <<cfgVars, libVars, exitVars, threadVars, orch, elapsed, api_lock, semaphore, db, batch, wsLive, nextWs, http_errors>>

\* f.write(chunk) of a file object that has written c - 1 chunks: the chunk
\* goes to the position of the file object, behind a hole of zeros when the
\* file was truncated by another open meanwhile.
WriteAt(data, c, b) ==
    IF c <= Len(data) THEN [data EXCEPT ![c] = b]
    ELSE data \o [i \in 1..(c - 1 - Len(data)) |-> 0] \o <<b>>

\* filepath.unlink() by the task k: the file objects other tasks have open on
\* this path keep the file that has lost its name.
Orphaned(f, k) ==
    [j \in DOMAIN f |->
        IF j # k /\ f[j].path = f[k].path /\ f[j].st = "body"
        THEN [f[j] EXCEPT !.orphan = TRUE] ELSE f[j]]

\* download_stream: "await client.get(url)", raise_for_status, aio_open "wb".
\* One request, no retry.
A_Get(k) ==
    /\ impl = "dl"
    /\ cur = 0
    /\ fetch[k].st = "queued"
    /\ \/ /\ fs' = WriteFile(fs, fetch[k].path, Content(<<>>))
          /\ fetch' = [fetch EXCEPT ![k].st = "body", ![k].tries = @ + 1]
       \/ /\ fs' = IF Exists(fs, fetch[k].path) THEN Unlink(fs, fetch[k].path) ELSE fs
          /\ fetch' = [Orphaned(fetch, k) EXCEPT ![k].st = "done", ![k].tries = @ + 1,
                                                 ![k].ret = "fail", ![k].why = "http"]
    /\ UNCHANGED <<cfgVars, libVars, exitVars, threadVars, dlVars, wsLive, nextWs, trk, http_errors>>

\* download_stream: "async for chunk ...: await f.write(chunk)"; an error in
\* the middle unlinks the file.
A_Body(k) ==
    /\ impl = "dl"
    /\ cur = 0
    /\ fetch[k].st = "body"
    /\ LET t == k[1]
           c == fetch[k].written + 1
           path == fetch[k].path
       IN  IF c > NChunks
           THEN /\ fs' = fs
                /\ fetch' = [fetch EXCEPT ![k].st = "done", ![k].ret = "ok", ![k].why = "ok"]
           ELSE \/ /\ fs' = IF fetch[k].orphan THEN fs
                            ELSE WriteFile(fs, path,
                                   [fs[path] EXCEPT
                                      !.data = WriteAt(@, c, Served(trk[t].stream, k[2])[c])])
                   /\ fetch' = [fetch EXCEPT ![k].written = c]
                \/ /\ fs' = IF Exists(fs, path) THEN Unlink(fs, path) ELSE fs
                   /\ fetch' = [Orphaned(fetch, k) EXCEPT ![k].st = "done", ![k].ret = "fail",
                                                          ![k].why = "http"]
    /\ UNCHANGED <<cfgVars, libVars, exitVars, threadVars, dlVars, wsLive, nextWs, trk, http_errors>>

\* A gather step that goes on to the merge without decrypting the segments.
\* DestinationClean does not hold of it.
PT_GatherSkippingDecrypt(t) ==
    /\ impl = "dl"
    /\ cur = 0
    /\ trk[t].pc = "gather"
    /\ \A p \in 1..Len(trk[t].stream.urls) : fetch[<<t, p>>].st = "done"
    /\ trk' = [trk EXCEPT ![t].pc = "merge", ![t].j = 1]
    /\ cur' = t
    /\ UNCHANGED <<cfgVars, libVars, exitVars, threadVars, orch, elapsed, api_lock, semaphore, db, batch, fs, wsLive, nextWs, fetch,
                   http_errors>>

\* "await gather(*tasks, return_exceptions=True)" returns: the results of the
\* tasks are not looked at.
PT_Gather(t) ==
    /\ impl = "dl"
    /\ cur = 0
    /\ trk[t].pc = "gather"
    /\ \A p \in 1..Len(trk[t].stream.urls) : fetch[<<t, p>>].st = "done"
    /\ trk' = [trk EXCEPT ![t].pc = IF trk[t].stream.enc THEN "decrypt" ELSE "merge",
                          ![t].j = 1]
    /\ cur' = t
    /\ UNCHANGED <<cfgVars, libVars, exitVars, threadVars, orch, elapsed, api_lock, semaphore, db, batch, fs, wsLive, nextWs, fetch,
                   http_errors>>

\* "if stream_info.is_encrypted and stream_info.encryption_key": the token,
\* then one iteration of "for seg_file in segment_files" per step.
PT_Decrypt(t) ==
    /\ Runnable(t)
    /\ trk[t].pc = "decrypt"
    /\ LET j == trk[t].j
           seg_file == trk[t].segment_files[j]
           decrypted_file == <<seg_file[1], with_suffix(seg_file[2], <<".decrypted">>)>>
       IN  IF j > Len(trk[t].segment_files)
           THEN /\ trk' = [trk EXCEPT ![t].pc = "merge"]
                /\ fs' = fs
           ELSE \/ /\ Exists(fs, seg_file)
                   /\ fs' = decrypt_file(fs, seg_file, decrypted_file)
                   /\ trk' = [trk EXCEPT ![t].j = @ + 1, ![t].segment_files[j] = decrypted_file,
                                         ![t].keys = IF j = 1 THEN @ + 1 ELSE @]
                \/ /\ ~Exists(fs, seg_file)          \* FileNotFoundError
                   /\ fs' = fs
                   /\ trk' = [trk EXCEPT ![t].pc = "cleanup", ![t].result = "false",
                                         ![t].keys = IF j = 1 THEN @ + 1 ELSE @]
                \/ /\ j = 1                          \* decrypt_security_token raises
                   /\ fs' = fs
                   /\ trk' = [trk EXCEPT ![t].pc = "cleanup", ![t].result = "false"]
    /\ cur' = t
    /\ UNCHANGED <<cfgVars, libVars, exitVars, threadVars, orch, elapsed, api_lock, semaphore, db, batch, wsLive, nextWs, fetch,
                   http_errors>>

\* What the loop of _merge_dash_segments has written when it stops: it stops
\* at the first segment it cannot open.
RECURSIVE MergedUntilMissing(_, _)
MergedUntilMissing(f, files) ==
    IF files = <<>> \/ ~Exists(f, files[1]) THEN <<>>
    ELSE f[files[1]].data \o MergedUntilMissing(f, Tail(files))

\* _merge_dash_segments: the output is opened "wb", then the segments are
\* appended in sorted order; a missing one is logged and then opened.
PT_Merge(t) ==
    /\ Runnable(t)
    /\ trk[t].pc = "merge"
    /\ LET s == trk[t].stream
           merged_file == PlainName("merged", s.ext)
           sorted_segments == SortedSegments(trk[t].segment_files)
       IN  /\ fs' = WriteFile(fs, <<trk[t].ws, merged_file>>,
                              Content(MergedUntilMissing(fs, sorted_segments)))
           /\ trk' = IF \A i \in 1..Len(sorted_segments) : Exists(fs, sorted_segments[i])
                     THEN [trk EXCEPT ![t].pc = "post", ![t].file = merged_file]
                     ELSE [trk EXCEPT ![t].pc = "cleanup", ![t].result = "false",
                                      ![t].file = merged_file]
    /\ cur' = t
    /\ UNCHANGED <<cfgVars, libVars, exitVars, threadVars, orch, elapsed, api_lock, semaphore, db, batch, wsLive, nextWs, fetch,
                   http_errors>>

\* What running ffprobe may come to: subprocess_run raises (TimeoutExpired
\* after 10 s, or ffprobe is not installed), ffprobe exits with an error, its
\* output is not JSON, or it is JSON with a list of streams and a format.
\* A stream is its codec_name, "nokey" when the entry has none; the format is
\* its format_name, "absent" when the JSON has no format.
CodecNames == {"aac", "flac", "alac", "opus", "FLAC", "nokey"}
FormatNames == {"mov,mp4,m4a,3gp,3g2,mj2", "flac", "absent"}

ProbeRuns ==
    { [outcome |-> o, streams |-> <<>>, format |-> "absent"]
        : o \in {"timeout", "oserror", "nonzero", "garbage"} }
    \cup [outcome : {"json"},
          streams : {<<>>} \cup { <<c>> : c \in CodecNames },
          format : FormatNames]

NoProbe == [raised |-> FALSE, run |-> NoRun, codec |-> "", container |-> ""]

\* str.lower(), on the names that occur
lower(s) == IF s = "FLAC" THEN "flac" ELSE s

\* A probe without its try/except: an exception of subprocess_run or of the
\* parsing leaves it.  ProbeNeverFails does not hold of it.
probe_unguarded(run) ==
    IF run.outcome \in {"timeout", "oserror", "garbage"}
       \/ (run.outcome = "json" /\ run.streams # <<>> /\ run.streams[1] = "nokey")
    THEN [raised |-> TRUE, run |-> run, codec |-> "", container |-> ""]
    ELSE IF run.outcome = "nonzero"
    THEN [raised |-> FALSE, run |-> run, codec |-> "", container |-> ""]
    ELSE [raised |-> FALSE, run |-> run,
          codec |-> lower(IF run.streams # <<>> THEN run.streams[1] ELSE ""),
          container |-> lower(IF run.format # "absent" THEN run.format ELSE "")]

\* _probe_codec_and_container: every exception is caught and logged, and
\* then, as for a returncode other than 0, the result is ("", "").
probe_codec_and_container(run) ==
    IF run.outcome \in {"timeout", "oserror", "garbage", "nonzero"}
       \/ (run.outcome = "json" /\ run.streams # <<>> /\ run.streams[1] = "nokey")
    THEN [raised |-> FALSE, run |-> run, codec |-> "", container |-> ""]
    ELSE [raised |-> FALSE, run |-> run,
          codec |-> lower(IF run.streams # <<>> THEN run.streams[1] ELSE ""),
          container |-> lower(IF run.format # "absent" THEN run.format ELSE "")]

\* "mp4" in container
contains_mp4(container) == container = "mov,mp4,m4a,3gp,3g2,mj2"

\* An extraction condition that does not ask the stream descriptor.
\* ExtractionIffMisboxedFlac does not hold of it.
should_extract_any_flac(s, codec, container) ==
    codec = "flac" /\ contains_mp4(container)

\* "if stream_info.needs_flac_extraction and codec == "flac" and "mp4" in
\* container"
should_extract(s, codec, container) ==
    needs_flac_extraction(s) /\ codec = "flac" /\ contains_mp4(container)

\* An extraction that leaves the MP4 file in place.
\* ExtractionReplacesOrFails does not hold of it.
extract_flac_keeping_source(f, mp4_file, output_flac_file, made) ==
    IF made THEN WriteFile(f, output_flac_file, [f[mp4_file] EXCEPT !.box = "extracted"])
    ELSE f

\* _extract_flac after ffmpeg.execute(): the output file was made or not;
\* the MP4 file is unlinked in both cases.
extract_flac(f, mp4_file, output_flac_file, made) ==
    IF made
    THEN WriteFile(Unlink(f, mp4_file), output_flac_file, [f[mp4_file] EXCEPT !.box = "extracted"])
    ELSE Unlink(f, mp4_file)

\* _post_process_file: decrypt a single file, probe, extract FLAC from MP4.
PT_PostProcess(t) ==
    /\ Runnable(t)
    /\ trk[t].pc = "post"
    /\ LET s == trk[t].stream
           w == trk[t].ws
           temp_file == trk[t].file
           decrypted_file == with_suffix(temp_file, <<".decrypted">>)
           dec == s.enc /\ ~is_dash(s)
           f1 == IF dec THEN decrypt_file(fs, <<w, temp_file>>, <<w, decrypted_file>>) ELSE fs
           temp1 == IF dec THEN decrypted_file ELSE temp_file
           output_flac_file == with_suffix(temp1, <<".flac">>)
           derived == IF dec THEN trk[t].keys + 1 ELSE trk[t].keys
       IN  \/ /\ dec                                 \* decrypt_security_token raises
              /\ fs' = fs
              /\ trk' = [trk EXCEPT ![t].pc = "cleanup", ![t].result = "false"]
           \/ \E run \in ProbeRuns :
                LET probed == probe_codec_and_container(run)
                IN  IF probed.raised                  \* caught by _post_process_file
                    THEN /\ fs' = f1
                         /\ trk' = [trk EXCEPT ![t].pc = "cleanup", ![t].result = "false",
                                               ![t].keys = derived, ![t].probe = probed]
                    ELSE IF should_extract(s, probed.codec, probed.container)
                    THEN \/ \E made \in BOOLEAN :
                              /\ fs' = extract_flac(f1, <<w, temp1>>, <<w, output_flac_file>>, made)
                              /\ trk' = IF Exists(fs', <<w, output_flac_file>>)
                                        THEN [trk EXCEPT ![t].pc = "finalize",
                                                         ![t].file = output_flac_file,
                                                         ![t].keys = derived, ![t].probe = probed,
                                                         ![t].extracted = "made"]
                                        ELSE [trk EXCEPT ![t].pc = "cleanup",
                                                         ![t].result = "false",
                                                         ![t].keys = derived, ![t].probe = probed,
                                                         ![t].extracted = "no_output"]
                         \/ /\ fs' = f1                          \* ffmpeg.execute() raises
                            /\ trk' = [trk EXCEPT ![t].pc = "cleanup", ![t].result = "false",
                                                  ![t].keys = derived, ![t].probe = probed,
                                                  ![t].extracted = "raised"]
                    ELSE /\ fs' = f1
                         /\ trk' = [trk EXCEPT ![t].pc = "finalize", ![t].file = temp1,
                                               ![t].keys = derived, ![t].probe = probed]
    /\ cur' = t
    /\ UNCHANGED <<cfgVars, libVars, exitVars, threadVars, orch, elapsed, api_lock, semaphore, db, batch, wsLive, nextWs, fetch,
                   http_errors>>

MetadataSuffixes == {".flac", ".m4a", ".mp4"}

\* A finalize step for which a metadata write that fails is fatal: the moved
\* file is removed and the track fails. MetadataFailureNotFatal does not hold
\* of it.
PT_FinalizeTagsOrNothing(t) ==
    /\ Runnable(t)
    /\ trk[t].pc = "finalize"
    /\ LET processed_file == <<trk[t].ws, trk[t].file>>
           target_path == with_suffix(trk[t].final, <<suffix(trk[t].file)>>)
       IN  \/ /\ \E written \in BOOLEAN :
                   /\ written => suffix(target_path) \in MetadataSuffixes
                   /\ fs' = IF written \/ suffix(target_path) \notin MetadataSuffixes
                            THEN WriteFile(Unlink(fs, processed_file), <<Dest, target_path>>,
                                           [fs[processed_file] EXCEPT !.tags = written])
                            ELSE Unlink(fs, processed_file)
                   /\ trk' = [trk EXCEPT
                                ![t].pc = IF written \/ suffix(target_path) \notin MetadataSuffixes
                                          THEN "record" ELSE "cleanup",
                                ![t].result = IF written \/ suffix(target_path) \notin MetadataSuffixes
                                              THEN "true" ELSE "false",
                                ![t].success = IF written \/ suffix(target_path) \notin MetadataSuffixes
                                               THEN "true" ELSE "false",
                                ![t].metadata = IF written THEN "written"
                                                ELSE IF suffix(target_path) \in MetadataSuffixes
                                                THEN "failed" ELSE "skipped",
                                ![t].probe = NoProbe,
                                ![t].file = target_path]
           \/ /\ fs' = fs                            \* mkdir or move raises
              /\ trk' = [trk EXCEPT ![t].pc = "cleanup", ![t].result = "false",
                                    ![t].probe = NoProbe,
                                    ![t].success = "false"]
    /\ cur' = t
    /\ UNCHANGED <<cfgVars, libVars, exitVars, threadVars, orch, elapsed, api_lock, semaphore, db, batch, wsLive, nextWs, fetch,
                   http_errors>>

\* _finalize_download: move to final_path.with_suffix(processed_file.suffix),
\* then _add_metadata for the suffixes it knows: write_metadata returns True,
\* or it returns False or raises, which is logged and ignored.
PT_Finalize(t) ==
    /\ Runnable(t)
    /\ trk[t].pc = "finalize"
    /\ LET processed_file == <<trk[t].ws, trk[t].file>>
           target_path == with_suffix(trk[t].final, <<suffix(trk[t].file)>>)
       IN  \/ /\ \E written \in BOOLEAN :
                   /\ written => suffix(target_path) \in MetadataSuffixes
                   /\ fs' = WriteFile(Unlink(fs, processed_file), <<Dest, target_path>>,
                                      [fs[processed_file] EXCEPT !.tags = written])
                   /\ trk' = [trk EXCEPT
                                ![t].pc = "record", ![t].result = "true",
                                ![t].success = "true",
                                ![t].metadata = IF written THEN "written"
                                                ELSE IF suffix(target_path) \in MetadataSuffixes
                                                THEN "failed" ELSE "skipped",
                                ![t].probe = NoProbe,
                                ![t].file = target_path]
           \/ /\ fs' = fs                            \* mkdir or move raises
              /\ trk' = [trk EXCEPT ![t].pc = "cleanup", ![t].result = "false",
                                    ![t].probe = NoProbe,
                                    ![t].success = "false"]
    /\ cur' = t
    /\ UNCHANGED <<cfgVars, libVars, exitVars, threadVars, orch, elapsed, api_lock, semaphore, db, batch, wsLive, nextWs, fetch,
                   http_errors>>

\* "if success and not self.skip_db": mark_track_downloaded with final_path
\* (a failing insert is logged and ignored).
PT_Record(t) ==
    /\ Runnable(t)
    /\ trk[t].pc = "record"
    /\ IF skip_db THEN db' = db
       ELSE \/ db' = mark_track_downloaded(t, trk[t].final, trk[t].stream.quality)
            \/ db' = db
    /\ trk' = [trk EXCEPT ![t].pc = "cleanup"]
    /\ cur' = t
    /\ UNCHANGED <<cfgVars, libVars, exitVars, threadVars, orch, elapsed, api_lock, semaphore, batch, fs, wsLive, nextWs, fetch,
                   http_errors>>

\* A workspace exit that removes the directory only after a success.
\* WorkspaceRemoved does not hold of it.
PT_CleanupOnSuccessOnly(t) ==
    /\ Runnable(t)
    /\ trk[t].pc = "cleanup"
    /\ wsLive' = IF trk[t].result = "true" THEN wsLive \ {trk[t].ws} ELSE wsLive
    /\ fs' = IF trk[t].result = "true" THEN RemoveTree(fs, trk[t].ws) ELSE fs
    /\ trk' = [trk EXCEPT ![t].pc = "done", ![t].probe = NoProbe]
    /\ semaphore' = semaphore + 1
    /\ cur' = 0
    /\ UNCHANGED <<cfgVars, libVars, exitVars, threadVars, orch, elapsed, api_lock, db, batch, nextWs, fetch, http_errors>>

\* Leaving "with self.download_workspace(...)": TemporaryDirectory cleanup;
\* process_track returns and the semaphore is released.
PT_Cleanup(t) ==
    /\ Runnable(t)
    /\ trk[t].pc = "cleanup"
    /\ wsLive' = wsLive \ {trk[t].ws}
    /\ fs' = RemoveTree(fs, trk[t].ws)
    /\ trk' = [trk EXCEPT ![t].pc = "done", ![t].probe = NoProbe]
    /\ semaphore' = semaphore + 1
    /\ cur' = 0
    /\ UNCHANGED <<cfgVars, libVars, exitVars, threadVars, orch, elapsed, api_lock, db, batch, nextWs, fetch, http_errors>>

\* {name: result ... for name, result in results_list}: one entry per
\* full_name, that of the last track of the batch with this name.
ResultsByName ==
    LET tracks == {u \in DOMAIN trk : InCurrentBatch(u)}
        last(name) == CHOOSE u \in tracks :
                         /\ trk[u].full_name = name
                         /\ \A v \in tracks : trk[v].full_name = name => v <= u
    IN  [name \in {trk[u].full_name : u \in tracks} |-> trk[last(name)].result = "true"]

\* results.update(batch_results)
update(results, batch_results) ==
    [name \in DOMAIN results \cup DOMAIN batch_results |->
        IF name \in DOMAIN batch_results THEN batch_results[name] ELSE results[name]]

\* progress = sum(v is True for v in results.values())
progress == Cardinality({name \in DOMAIN orch.results : orch.results[name]})

\* _process_batch after gather(..., return_exceptions=True): the comprehension
\* unpacks every element as (name, result); an exception object does not unpack.
PB_Return ==
    /\ impl = "dl"
    /\ batch.st = "running"
    /\ \A t \in DOMAIN trk : InCurrentBatch(t) => trk[t].pc = "done"
    /\ batch' = IF \E t \in DOMAIN trk : InCurrentBatch(t) /\ trk[t].result = "raised"
                THEN [st |-> "raised", results |-> <<>>]
                ELSE [st |-> "returned", results |-> ResultsByName]
    /\ UNCHANGED <<cfgVars, libVars, exitVars, threadVars, orch, elapsed, cur, api_lock, semaphore, db, fs, wsLive,
                   nextWs, trk, fetch, http_errors>>

\* orchestrate_download after "await self._process_batch(batch)": an exception
\* of the batch leaves orchestrate_download; otherwise results.update, then the
\* delay unless this was the last batch.
OD_AfterBatch ==
    /\ impl = "dl"
    /\ orch.pc = "batch"
    /\ batch.st \in {"returned", "raised"}
    /\ orch' = [orch EXCEPT !.pc = IF batch.st = "raised" THEN "raised"
                                   ELSE IF orch.batch_num < total_batches - 1 THEN "delay"
                                   ELSE "returned",
                            !.results = IF batch.st = "raised" THEN @
                                        ELSE update(@, batch.results)]
    /\ UNCHANGED <<cfgVars, libVars, exitVars, threadVars, elapsed, cur, api_lock, semaphore, db, batch, fs, wsLive,
                   nextWs, trk, fetch, http_errors>>

\* "await async_sleep(self.batch_delay)" is over: the next iteration of the
\* loop calls _process_batch, which makes a new semaphore.
OD_Delay ==
    /\ impl = "dl"
    /\ cur = 0
    /\ orch.pc = "delay"
    /\ orch' = [orch EXCEPT !.pc = "batch", !.batch_num = @ + 1, !.delays = @ + 1]
    /\ batch' = [st |-> "running", results |-> <<>>]
    /\ semaphore' = concurrent_downloads
    /\ UNCHANGED <<cfgVars, libVars, exitVars, threadVars, elapsed, cur, api_lock, db, fs, wsLive, nextWs, trk,
                   fetch, http_errors>>

\* _process_batch is called again, on the same Download, with the track it
\* has downloaded: a new semaphore and a new task; _stream_cache holds the
\* stream of the track.  Explored for one track, skip_existing set, without
\* database.
PB_Again ==
    /\ impl = "dl"
    /\ cur = 0
    /\ orch.pc = "returned"
    /\ Len(trk) = 1
    /\ skip_existing /\ skip_db
    /\ trk[1].pc = "done" /\ trk[1].result = "true" /\ trk[1].ws # 0
    /\ trk[1].call < MaxBatchCalls
    /\ trk' = <<[Track(trk[1].full_name) EXCEPT !.stream = trk[1].stream,
                                                !.call = trk[1].call + 1]>>
    /\ batch' = [st |-> "running", results |-> <<>>]
    /\ semaphore' = concurrent_downloads
    /\ fetch' = <<>>
    /\ UNCHANGED <<cfgVars, libVars, exitVars, threadVars, orch, elapsed, cur, api_lock, db, fs, wsLive, nextWs,
                   http_errors>>

----------------------------------------------------------------------------
(* decryption.py: decrypt_security_token.  Byte strings are sequences of     *)
(* 8-byte words (a word is 0 or 1), so an AES block is two words, the IV is *)
(* two words, the content key is two words and the nonce is one word.       *)

MaxTokenWords == 6  \* longest decoded token: IV, one block of key, one of nonce
MaxCalls == 3       \* calls of decrypt_security_token in one run

WordBytes == 8
Junk == 2           \* a character outside the base64 alphabet

\* The words of length n: all zeros, or alternating, starting with 1.
Zeros(n) == [i \in 1..n |-> 0]
Stripes(n) == [i \in 1..n |-> i % 2]

\* Base64 texts: the encoded words, possibly with characters outside the
\* alphabet before, between or after them, and with correct padding or not.
Texts(maxlen) ==
    UNION { { [chars |-> w, padded |-> TRUE, none |-> FALSE],
              [chars |-> w, padded |-> FALSE, none |-> FALSE],
              [chars |-> <<Junk>> \o w, padded |-> TRUE, none |-> FALSE],
              [chars |-> w \o <<Junk>>, padded |-> TRUE, none |-> FALSE] }
            : w \in UNION { {Zeros(n), Stripes(n)} : n \in 0..maxlen } }

SecurityTokens == Texts(MaxTokenWords)

\* None, where a text is expected.
None == [chars |-> <<>>, padded |-> FALSE, none |-> TRUE]

\* MASTER_KEY = getenv("MASTER_KEY"): unset, or the text in the environment:
\* an AES-128 key, or something that is not a key.
MasterKeys ==
    {None}
    \cup { [chars |-> w, padded |-> TRUE, none |-> FALSE] : w \in {<<0, 1>>, <<1, 1>>, <<1>>} }
    \cup { [chars |-> <<0, 1>>, padded |-> FALSE, none |-> FALSE],
           [chars |-> <<0, Junk, 1>>, padded |-> TRUE, none |-> FALSE] }

InAlphabet(c) == c # Junk

\* b64decode(s), validate=False: characters outside the alphabet are
\* discarded, then the padding is checked.  None is not a string.
b64decode(s) ==
    IF s.none THEN [raised |-> "TypeError", bytes |-> <<>>]
    ELSE IF ~s.padded THEN [raised |-> "binascii.Error", bytes |-> <<>>]
    ELSE [raised |-> "", bytes |-> SelectSeq(s.chars, InAlphabet)]

\* s[:n] and s[n:] of Python: slices never raise.
Take(s, n) == SubSeq(s, 1, IF n < Len(s) THEN n ELSE Len(s))
Drop(s, n) == SubSeq(s, n + 1, Len(s))

\* AES key sizes: 16, 24 or 32 bytes.
ValidKeyLength(k) == Len(k) * WordBytes \in {16, 24, 32}

\* AES decryption of one block under the key: a permutation of the blocks
\* that depends on the key.
AESDecryptBlock(k, block) == <<Xor(block[2], k[1]), Xor(block[1], k[Len(k)])>>

\* CBC decryption of ciphertext c (whole blocks) with chaining value iv:
\* P_i = D_k(C_i) xor C_(i-1), C_0 = iv.
CBCDecrypt(k, iv, c) ==
    [j \in 1..Len(c) |->
        LET b == (j + 1) \div 2
            block == <<c[(2 * b) - 1], c[2 * b]>>
            prev == IF b = 1 THEN iv ELSE <<c[(2 * b) - 3], c[(2 * b) - 2]>>
            q == IF j % 2 = 1 THEN 1 ELSE 2
        IN  Xor(AESDecryptBlock(k, block)[q], prev[q])]

Raise(e) == [raised |-> e, key |-> <<>>, nonce |-> <<>>]

\* AES.new(master_key, AES.MODE_CBC, chaining).decrypt(ciphertext), then the
\* two slices: the key length, the IV length and the block boundary are what
\* the library checks; the lengths of key and nonce are not checked.
decrypt_with(master_key, chaining, ciphertext) ==
    IF ~ValidKeyLength(master_key) THEN Raise("ValueError")
    ELSE IF Len(chaining) * WordBytes # 16 THEN Raise("ValueError")
    ELSE IF (Len(ciphertext) * WordBytes) % 16 # 0 THEN Raise("ValueError")
    ELSE LET decrypted_security_token == CBCDecrypt(master_key, chaining, ciphertext)
         IN  [raised |-> "",
              key |-> Take(decrypted_security_token, 16 \div WordBytes),
              nonce |-> Take(Drop(decrypted_security_token, 16 \div WordBytes),
                             (24 - 16) \div WordBytes)]

\* decrypt_security_token(security_token)
decrypt_security_token(security_token) ==
    LET master_key == b64decode(MASTER_KEY)
        decoded_token == b64decode(security_token)
    IN  IF master_key.raised # "" THEN Raise(master_key.raised)
        ELSE IF decoded_token.raised # "" THEN Raise(decoded_token.raised)
        ELSE decrypt_with(master_key.bytes, Take(decoded_token.bytes, 16 \div WordBytes),
                          Drop(decoded_token.bytes, 16 \div WordBytes))

NoCall == [token |-> None, master_key |-> None, result |-> Raise("")]
NoLog == [n |-> 0, first |-> NoCall, last |-> NoCall]

Logged(token, result) ==
    LET call == [token |-> token, master_key |-> MASTER_KEY, result |-> result]
    IN  [n |-> key_log.n + 1,
         first |-> IF key_log.n = 0 THEN call ELSE key_log.first,
         last |-> call]

\* The state of a run in which no Download object is at work.
NoDownload(module) ==
    /\ impl = module
    /\ skip_existing = FALSE
    /\ skip_db = TRUE
    /\ concurrent_downloads = 0
    /\ url_tokens = "numbers"
    /\ semaphore = 0
    /\ abort_at = "none"
    /\ cur = 0
    /\ api_lock = 0
    /\ elapsed = min_interval
    /\ orch = [pc |-> "none", batch_size |-> 1, batch_num |-> 0, delays |-> 0, results |-> <<>>]
    /\ db = <<>>
    /\ batch = [st |-> "none", results |-> <<>>]
    /\ event_abort = FALSE
    /\ event_pause = TRUE
    /\ fs = <<>>
    /\ wsLive = {}
    /\ nextWs = 0
    /\ trk = <<>>
    /\ fetch = <<>>
    /\ http_errors = 0
    /\ client = "open"
    /\ atexit = NotExited

\* The state of a run in which neither the codec nor TidlClient is used.
NoLibrary ==
    /\ MASTER_KEY = [chars |-> <<0, 1>>, padded |-> TRUE, none |-> FALSE]
    /\ key_log = NoLog
    /\ instances = <<>>
    /\ heap = <<>>
    /\ calls = <<>>

downloadVars == <<cfgVars, dlVars, abort_at, event_abort, event_pause, fs, wsLive, nextWs, trk,
                  fetch, http_errors, exitVars>>

\* A call that decrypts with a decryptor kept from the call before: the
\* chaining value is where the last decryption stopped, not the IV of this
\* token.  DeriveKeyDeterministic does not hold of it.
DeriveKeyWithSharedDecryptor(security_token) ==
    /\ impl = "codec"
    /\ key_log.n < MaxCalls
    /\ LET master_key == b64decode(MASTER_KEY)
           decoded_token == b64decode(security_token)
           before == IF key_log.n = 0 THEN <<>> ELSE b64decode(key_log.last.token).bytes
           chaining == IF Len(before) >= 4 THEN SubSeq(before, Len(before) - 1, Len(before))
                       ELSE Take(decoded_token.bytes, 2)
           result == IF master_key.raised # "" THEN Raise(master_key.raised)
                     ELSE IF decoded_token.raised # "" THEN Raise(decoded_token.raised)
                     ELSE decrypt_with(master_key.bytes, chaining, Drop(decoded_token.bytes, 2))
       IN  key_log' = Logged(security_token, result)
    /\ UNCHANGED <<downloadVars, MASTER_KEY, instances, heap, calls>>

\* One call of decrypt_security_token; the history keeps the first call and
\* the latest one.
DeriveKey(security_token) ==
    /\ impl = "codec"
    /\ key_log.n < MaxCalls
    /\ key_log' = Logged(security_token, decrypt_security_token(security_token))
    /\ UNCHANGED <<downloadVars, MASTER_KEY, instances, heap, calls>>

InitCodec ==
    /\ NoDownload("codec")
    /\ MASTER_KEY \in MasterKeys
    /\ key_log = NoLog
    /\ instances = <<>>
    /\ heap = <<>>
    /\ calls = <<>>

NextCodec == \E security_token \in SecurityTokens : DeriveKey(security_token)

SpecCodec == InitCodec /\ [][NextCodec]_vars

----------------------------------------------------------------------------
(* client.py: SingletonMeta and TidlClient *)

Classes == {"TidlClient"}

\* TidlClient.__init__: a new session, which is not logged in, and the flag.
TidlClient_init == [session |-> [logged_in |-> FALSE], _authenticated |-> FALSE]

\* A metaclass call that does not look into _instances.  Singleton does not
\* hold of it.
SingletonMeta_call_uncached(cls, insts, hp) ==
    [instances |-> [c \in DOMAIN insts \cup {cls} |-> Len(hp) + 1],
     heap |-> Append(hp, TidlClient_init),
     instance |-> Len(hp) + 1]

\* SingletonMeta.__call__: the instance is created, initialised and stored when
\* the class has none; the stored instance is returned.
SingletonMeta_call(cls, insts, hp) ==
    IF cls \notin DOMAIN insts
    THEN [instances |-> [c \in DOMAIN insts \cup {cls} |->
                            IF c = cls THEN Len(hp) + 1 ELSE insts[c]],
          heap |-> Append(hp, TidlClient_init),
          instance |-> Len(hp) + 1]
    ELSE [instances |-> insts, heap |-> hp, instance |-> insts[cls]]

\* What session.login_oauth_simple() may do: log the session in, report a
\* failure by its result, or raise an exception of the caught classes.
LoginOutcomes == {"logged_in", "returned_false", "raised"}

login_oauth_simple(session, login) ==
    IF login = "logged_in" THEN [session EXCEPT !.logged_in = TRUE] ELSE session

\* What session.check_login() may do: it is true only of a session that is
\* logged in, and it may raise an exception of the caught classes.
check_login(session) ==
    {"false", "raised"} \cup (IF session.logged_in THEN {"true"} ELSE {})

\* authenticate: the result of the login is logged and not looked at; an
\* exception returns False; otherwise check_login decides.
authenticate_with(self, login, check) ==
    LET session == login_oauth_simple(self.session, login)
    IN  IF login = "raised" \/ check # "true"
        THEN [self |-> [self EXCEPT !.session = session], returned |-> "false"]
        ELSE [self |-> [self EXCEPT !.session = session, !._authenticated = TRUE],
              returned |-> "true"]

\* is_authenticated: auth_flag and session_check, False when check_login raises
is_authenticated_with(self, check) ==
    IF self._authenticated /\ check = "true" THEN "true" ELSE "false"

Called(op, self, login, check, returned) ==
    Append(calls, [op |-> op, self |-> self, login |-> login, check |-> check,
                   returned |-> returned])

\* client = TidlClient()
Construct(cls) ==
    /\ impl = "client"
    /\ Len(calls) < MaxClientCalls
    /\ LET r == SingletonMeta_call(cls, instances, heap)
       IN  /\ instances' = r.instances
           /\ heap' = r.heap
           /\ calls' = Called("construct", r.instance, "none", "none", "instance")
    /\ UNCHANGED <<downloadVars, MASTER_KEY, key_log>>

\* client.authenticate()
authenticate(cls) ==
    /\ impl = "client"
    /\ Len(calls) < MaxClientCalls
    /\ cls \in DOMAIN instances
    /\ LET i == instances[cls]
       IN  \E login \in LoginOutcomes :
             \E check \in check_login(login_oauth_simple(heap[i].session, login)) :
               LET r == authenticate_with(heap[i], login, check)
               IN  /\ heap' = [heap EXCEPT ![i] = r.self]
                   /\ calls' = Called("authenticate", i, login,
                                      IF login = "raised" THEN "none" ELSE check,
                                      r.returned)
    /\ UNCHANGED <<downloadVars, MASTER_KEY, key_log, instances>>

\* client.is_authenticated()
is_authenticated(cls) ==
    /\ impl = "client"
    /\ Len(calls) < MaxClientCalls
    /\ cls \in DOMAIN instances
    /\ LET i == instances[cls]
       IN  \E check \in check_login(heap[i].session) :
             calls' = Called("is_authenticated", i, "none", check,
                             is_authenticated_with(heap[i], check))
    /\ UNCHANGED <<downloadVars, MASTER_KEY, key_log, instances, heap>>

InitClient ==
    /\ NoDownload("client")
    /\ NoLibrary

NextClient ==
    \E cls \in Classes :
        \/ Construct(cls)
        \/ authenticate(cls)
        \/ is_authenticated(cls)

SpecClient == InitClient /\ [][NextClient]_vars

----------------------------------------------------------------------------
(* Specification of download.py *)

OldFile == [data |-> <<1>>, box |-> "orig", tags |-> TRUE]

InitFiles(T) ==
    { f \in UNION { [D -> {OldFile}] : D \in SUBSET { <<Dest, FinalName(t, e)>> : t \in T, e \in {".m4a"} } } : TRUE }

InitDownload ==
    /\ impl = "download"
    /\ skip_existing \in BOOLEAN
    /\ skip_db = TRUE
    /\ concurrent_downloads = 0
    /\ semaphore = 0
    /\ abort_at = "none"
    /\ cur = 0
    /\ api_lock = 0
    /\ elapsed = min_interval
    /\ orch = [pc |-> "none", batch_size |-> 1, batch_num |-> 0, delays |-> 0, results |-> <<>>]
    /\ db = <<<<>>>>
    /\ batch = [st |-> "none", results |-> <<>>]
    /\ event_abort = FALSE
    /\ event_pause = TRUE
    /\ fs \in InitFiles({1})
    /\ skip_existing \/ fs # <<>>
    /\ wsLive = {}
    /\ nextWs = 0
    /\ trk = <<NewTrack>>
    /\ fetch = <<>>
    /\ http_errors = 0
    /\ url_tokens = "numbers"
    /\ client = "open"
    /\ atexit = NotExited
    /\ NoLibrary

NextDownload ==
    \/ \E t \in DOMAIN trk : DT_Start(t)
    \/ \E t \in DOMAIN trk : DT_Resolve(t)
    \/ \E t \in DOMAIN trk : DT_Workspace(t)
    \/ \E t \in DOMAIN trk : DT_Process(t)
    \/ \E t \in DOMAIN trk : DT_Single(t)
    \/ \E t \in DOMAIN trk : DT_Dispatch(t)
    \/ \E t \in DOMAIN trk : DT_Collect(t)
    \/ \E t \in DOMAIN trk : DT_Join(t)
    \/ \E t \in DOMAIN trk : DT_Decrypt(t)
    \/ \E t \in DOMAIN trk : DT_Merge(t)
    \/ \E t \in DOMAIN trk : DT_Containerize(t)
    \/ \E t \in DOMAIN trk : DT_PostProcess(t)
    \/ \E t \in DOMAIN trk : DT_Finalize(t)
    \/ \E t \in DOMAIN trk : DT_Cleanup(t)
    \/ \E k \in Fetches : F_Start(k)
    \/ \E k \in Fetches : F_Check(k)
    \/ \E k \in Fetches : F_PauseWait(k)
    \/ \E k \in Fetches : F_Released(k)
    \/ \E k \in Fetches : F_Request(k)
    \/ \E k \in Fetches : F_Body(k)
    \/ \E k \in Fetches : F_Sleep(k)
    \/ pause
    \/ resume
    \/ stop
    \/ signal_handler
    \/ emergency_cleanup

SpecDownload == InitDownload /\ [][NextDownload]_vars

\* The fetches download_track may have: one per URL of its stream.
FetchIds == {1} \X (1..MaxSegs)

\* A worker thread that has been woken from event_pause.wait() gets to run.
FairSpecDownload == SpecDownload /\ \A k \in FetchIds : WF_vars(F_Released(k))

\* The steps of the worker thread that runs _download_file for the fetch k.
FetchStep(k) ==
    /\ k \in Fetches
    /\ \/ F_Check(k)
       \/ F_PauseWait(k)
       \/ F_Released(k)
       \/ F_Request(k)
       \/ F_Body(k)
       \/ F_Sleep(k)

\* Every worker thread that can take a step gets to run; nothing makes the
\* caller of pause, resume and stop call them.
LiveSpecDownload == SpecDownload /\ \A k \in FetchIds : WF_vars(FetchStep(k))

----------------------------------------------------------------------------
(* Specification of dl.py *)

OldRow(t, quality) ==
    [quality |-> quality, file_path |-> FinalName(t, ".m4a"), file_size |-> 1]

\* The rows the database may hold for a track before the run.
OldRows(t) ==
    {<<>>}
    \cup { <<OldRow(t, q)>> : q \in Qualities \cup {"LOSSLESS"} }
    \cup { <<OldRow(t, "low_96k"), OldRow(t, "high_lossless")>>,
           <<OldRow(t, "hi_res_lossless"), OldRow(t, "low_320k")>> }

InitDlCommon ==
    /\ impl = "dl"
    /\ abort_at = "none"
    /\ event_abort = FALSE
    /\ event_pause = TRUE
    /\ cur = 0
    /\ api_lock = 0
    /\ batch = [st |-> "running", results |-> <<>>]
    /\ wsLive = {}
    /\ nextWs = 0
    /\ fetch = <<>>
    /\ http_errors = 0
    /\ url_tokens = "numbers"
    /\ client = "open"
    /\ atexit = NotExited
    /\ NoLibrary

\* A batch of one track, every stream descriptor, with and without database,
\* on a Download whose rate limiter has not been used (last_call = 0.0).
InitTrack ==
    /\ InitDlCommon
    /\ elapsed = min_interval
    /\ orch = [pc |-> "batch", batch_size |-> 1, batch_num |-> 0, delays |-> 0, results |-> <<>>]
    /\ trk = <<NewTrack>>
    /\ concurrent_downloads = 1
    /\ semaphore = concurrent_downloads
    /\ skip_existing \in BOOLEAN
    /\ skip_db \in BOOLEAN
    /\ fs \in InitFiles({1})
    /\ db \in [{1} -> OldRows(1)]
    /\ skip_db => db[1] = <<>>

\* A batch of two tracks, on a Download whose rate limiter was used before.
InitBatch ==
    /\ InitDlCommon
    /\ elapsed \in 0..min_interval
    /\ orch = [pc |-> "batch", batch_size |-> 2, batch_num |-> 0, delays |-> 0, results |-> <<>>]
    /\ trk = <<Track(1), Track(2)>>
    /\ concurrent_downloads \in 1..2
    /\ semaphore = concurrent_downloads
    /\ skip_existing = FALSE
    /\ skip_db = TRUE
    /\ fs = <<>>
    /\ db = <<<<>>, <<>>>>

\* A playlist of three tracks in batches of one or of two.
InitPlaylist ==
    /\ InitDlCommon
    /\ elapsed = min_interval
    /\ trk = <<Track(1), Track(2), Track(3)>>
    /\ \E size \in 1..2 :
         orch = [pc |-> "batch", batch_size |-> size, batch_num |-> 0, delays |-> 0, results |-> <<>>]
    /\ concurrent_downloads = orch.batch_size
    /\ semaphore = concurrent_downloads
    /\ skip_existing = FALSE
    /\ skip_db = TRUE
    /\ fs = <<>>
    /\ db = <<<<>>, <<>>, <<>>>>

InitDl == InitTrack \/ InitBatch \/ InitPlaylist

\* A batch of one track whose stream has several URLs with any trailing
\* tokens, without database, into an empty directory.
InitUrls ==
    /\ impl = "dl"
    /\ url_tokens = "any"
    /\ abort_at = "none"
    /\ event_abort = FALSE
    /\ event_pause = TRUE
    /\ cur = 0
    /\ api_lock = 0
    /\ batch = [st |-> "running", results |-> <<>>]
    /\ wsLive = {}
    /\ nextWs = 0
    /\ fetch = <<>>
    /\ http_errors = 0
    /\ client = "open"
    /\ atexit = NotExited
    /\ NoLibrary
    /\ elapsed = min_interval
    /\ orch = [pc |-> "batch", batch_size |-> 1, batch_num |-> 0, delays |-> 0, results |-> <<>>]
    /\ trk = <<NewTrack>>
    /\ concurrent_downloads = 1
    /\ semaphore = concurrent_downloads
    /\ skip_existing = FALSE
    /\ skip_db = TRUE
    /\ fs = <<>>
    /\ db = <<<<>>>>

NextDl ==
    \/ \E t \in DOMAIN trk : PT_Start(t)
    \/ \E t \in DOMAIN trk : PT_LockWait(t)
    \/ \E t \in DOMAIN trk : PT_Lock(t)
    \/ \E t \in DOMAIN trk : PT_Rate(t)
    \/ \E t \in DOMAIN trk : PT_RateWake(t)
    \/ Tick
    \/ \E t \in DOMAIN trk : PT_Resolve(t)
    \/ \E t \in DOMAIN trk : PT_DbCheck(t)
    \/ \E t \in DOMAIN trk : PT_CheckExists(t)
    \/ \E t \in DOMAIN trk : PT_Workspace(t)
    \/ \E t \in DOMAIN trk : PT_Download(t)
    \/ \E k \in Fetches : A_Get(k)
    \/ \E k \in Fetches : A_Body(k)
    \/ \E t \in DOMAIN trk : PT_Gather(t)
    \/ \E t \in DOMAIN trk : PT_Decrypt(t)
    \/ \E t \in DOMAIN trk : PT_Merge(t)
    \/ \E t \in DOMAIN trk : PT_PostProcess(t)
    \/ \E t \in DOMAIN trk : PT_Finalize(t)
    \/ \E t \in DOMAIN trk : PT_Record(t)
    \/ \E t \in DOMAIN trk : PT_Cleanup(t)
    \/ PB_Return
    \/ OD_AfterBatch
    \/ OD_Delay

SpecDl == InitDl /\ [][NextDl]_vars

\* The event loop keeps running: a task that is ready is run, and a sleep or
\* a request that is awaited completes.
FairSpecDl == SpecDl /\ WF_vars(NextDl)

\* A batch of two tracks that have the same full_name.
InitNames ==
    /\ impl = "dl"
    /\ url_tokens = "numbers"
    /\ abort_at = "none"
    /\ event_abort = FALSE
    /\ event_pause = TRUE
    /\ cur = 0
    /\ api_lock = 0
    /\ batch = [st |-> "running", results |-> <<>>]
    /\ wsLive = {}
    /\ nextWs = 0
    /\ fetch = <<>>
    /\ http_errors = 0
    /\ client = "open"
    /\ atexit = NotExited
    /\ NoLibrary
    /\ elapsed = min_interval
    /\ orch = [pc |-> "batch", batch_size |-> 2, batch_num |-> 0, delays |-> 0, results |-> <<>>]
    /\ trk = <<Track(1), Track(1)>>
    /\ concurrent_downloads = 2
    /\ semaphore = concurrent_downloads
    /\ skip_existing = FALSE
    /\ skip_db = TRUE
    /\ fs = <<>>
    /\ db = <<<<>>, <<>>>>

\* A playlist without tracks, in batches of one or of two.
InitEmpty ==
    /\ impl = "dl"
    /\ url_tokens = "numbers"
    /\ abort_at = "none"
    /\ event_abort = FALSE
    /\ event_pause = TRUE
    /\ cur = 0
    /\ api_lock = 0
    /\ batch = [st |-> "none", results |-> <<>>]
    /\ wsLive = {}
    /\ nextWs = 0
    /\ fetch = <<>>
    /\ http_errors = 0
    /\ client = "open"
    /\ atexit = NotExited
    /\ NoLibrary
    /\ elapsed = min_interval
    /\ trk = <<>>
    /\ \E size \in 1..2 :
         orch = [pc |-> LoopHead(0, size), batch_size |-> size, batch_num |-> 0,
                 delays |-> 0, results |-> <<>>]
    /\ concurrent_downloads = orch.batch_size
    /\ semaphore = concurrent_downloads
    /\ skip_existing = FALSE
    /\ skip_db = TRUE
    /\ fs = <<>>
    /\ db = <<>>

\* dl.py on the playlists of SpecDl and on the empty one.
SpecDlLists == (InitDl \/ InitEmpty) /\ [][NextDl]_vars

\* dl.py on the playlists of SpecDl and on one with a repeated full_name.
SpecDlNames == (InitDl \/ InitNames) /\ [][NextDl]_vars

\* dl.py with a second call for a track that was downloaded.
NextDlAgain == NextDl \/ PB_Again

SpecDlAgain == InitDl /\ [][NextDlAgain]_vars

\* dl.py on the streams of SpecDl and on those with any trailing tokens.
SpecDlUrls == (InitDl \/ InitUrls) /\ [][NextDl]_vars

----------------------------------------------------------------------------
(* Both implementations *)

Init == InitDownload \/ InitDl

Next == NextDownload \/ NextDl

Spec == Init /\ [][Next]_vars

----------------------------------------------------------------------------
(* Properties *)

WorkspaceGone(w) == w \notin wsLive /\ \A p \in DOMAIN fs : p[1] # w

\* The payloads of a stream in ascending segment-index order, decrypted.
RECURSIVE InIndexOrder(_, _)
InIndexOrder(s, id) ==
    IF id >= Len(s.urls) THEN <<>>
    ELSE LET p == CHOOSE q \in 1..Len(s.urls) : s.urls[q] = id
         IN  Plain(p) \o InIndexOrder(s, id + 1)

\* C1: when the merge step has written the merged file of a multi-segment
\* stream, its bytes are the segment payloads concatenated in
\* ascending index order, each once.
C1_MergeInIndexOrder ==
    \A t \in DOMAIN trk :
        (\/ impl = "download" /\ trk[t].pc = "containerize"
         \/ impl = "dl" /\ trk[t].pc = "post" /\ is_dash(trk[t].stream))
            => fs[<<trk[t].ws, trk[t].file>>].data = InIndexOrder(trk[t].stream, 0)

C10_AbortLeavesNoFile ==
    \A k \in DOMAIN fetch :
        (impl = "download" /\ fetch[k].st = "done" /\ fetch[k].why = "abort")
            => fetch[k].ret = "fail" /\ ~Exists(fs, fetch[k].path)

MergedPath(t) == <<trk[t].ws, PlainName("merged", trk[t].stream.ext)>>

\* C2: if a segment fetch of a track has failed, no merged file exists in its
\* workspace at any time and the track's result is not true.
C2_NoMergeAfterFailedSegment ==
    \A t \in DOMAIN trk :
        (is_dash(trk[t].stream) /\ \E k \in Fetches : k[1] = t /\ fetch[k].ret = "fail")
            => ~Exists(fs, MergedPath(t)) /\ trk[t].result # "true"

\* C3: a fetch that returned because its requests failed with HTTP errors made
\* exactly 5 requests, returned failure, and left no file at its path.
C3_FiveAttemptsThenFailure ==
    \A k \in Fetches :
        (fetch[k].st = "done" /\ fetch[k].why \in {"exhausted", "http"})
            => fetch[k].tries = retries /\ fetch[k].ret = "fail" /\ ~Exists(fs, fetch[k].path)

\* C4: _process_batch never ends by raising, and when it returns, every
\* track's entry is the result of that track's process_track.
C4_BatchSurvivesTrackFailure ==
    /\ batch.st # "raised"
    /\ batch.st = "returned"
          => \A t \in DOMAIN batch.results : batch.results[t] = (trk[t].result = "true")

\* C5: a track that has returned has no workspace left (the directory and all
\* its files are gone), files outside the destination lie in a live workspace,
\* and no two tracks have the same workspace.
C5_WorkspaceRemoved ==
    /\ \A t \in DOMAIN trk :
          (trk[t].pc = "done" /\ trk[t].ws # 0) => WorkspaceGone(trk[t].ws)
    /\ \A p \in DOMAIN fs : p[1] # Dest => p[1] \in wsLive
    /\ \A t, u \in DOMAIN trk : (t # u /\ trk[t].ws # 0) => trk[t].ws # trk[u].ws

\* C5 happens: two tracks of a batch each had a workspace, one succeeded and
\* one failed, and both have returned.
C5_Witness ==
    /\ Cardinality(DOMAIN trk) > 1
    /\ \A t \in DOMAIN trk : trk[t].pc = "done" /\ trk[t].ws # 0
    /\ \E t, u \in DOMAIN trk : trk[t].result = "true" /\ trk[u].result = "false"

\* C6: a track with stored best tier X whose stream offers tier Y gets a
\* workspace (is downloaded again) exactly if rank(Y) > rank(X), and otherwise
\* process_track returns true.
C6_RedownloadIffBetter ==
    \A t \in DOMAIN trk :
        (impl = "dl" /\ trk[t].pc = "done" /\ trk[t].existing_quality # "")
            => LET better == quality_rank(normalize(trk[t].stream.quality))
                                > quality_rank(normalize(trk[t].existing_quality))
               IN  /\ (trk[t].ws # 0) <=> better
                   /\ ~better => trk[t].result = "true"

Finalized(t) ==
    /\ impl = "dl"
    /\ trk[t].pc \in {"record", "cleanup", "done"}
    /\ trk[t].result = "true"
    /\ trk[t].ws # 0

\* C7 as stated: the finalized file of a single-URL stream is, byte for byte,
\* the fetched (and decrypted) payload.
C7_FinalizedBytesEqualFetched ==
    \A t \in DOMAIN trk :
        (Finalized(t) /\ ~is_dash(trk[t].stream))
            => fs[<<Dest, trk[t].file>>] = Content(Plain(1))

\* C7 amended: the finalized file of a single-URL stream holds the fetched
\* (and decrypted) payload, whole and once; the file around it may have been
\* re-boxed by the FLAC extraction and may carry embedded tags.
C7_FinalizedPayload ==
    \A t \in DOMAIN trk :
        (Finalized(t) /\ ~is_dash(trk[t].stream))
            => /\ Exists(fs, <<Dest, trk[t].file>>)
               /\ fs[<<Dest, trk[t].file>>].data = Plain(1)

\* C7 happens: an encrypted single-URL stream was fetched, decrypted and
\* finalized.
C7_Witness ==
    \E t \in DOMAIN trk :
        Finalized(t) /\ ~is_dash(trk[t].stream) /\ trk[t].stream.enc /\ trk[t].pc = "done"

\* C8: every file in the destination directory is a track file (never a
\* segment, a merged or a download file), holds no ciphertext, and is whole.
C8_DestinationClean ==
    \A p \in DOMAIN fs :
        p[1] = Dest
            => /\ p[2].base = "track"
               /\ \A i \in 1..Len(fs[p].data) : ~IsCipherByte(fs[p].data[i])
               /\ \/ fs[p] = OldFile
                  \/ Len(fs[p].data) = NChunks * Len(trk[p[2].id].stream.urls)

\* C8 happens: an encrypted multi-segment stream has been finalized into the
\* destination while its workspace still holds files.
C8_Witness ==
    \E t \in DOMAIN trk :
        /\ trk[t].stream.enc /\ is_dash(trk[t].stream)
        /\ trk[t].result = "true"
        /\ Exists(fs, <<Dest, trk[t].file>>)
        /\ trk[t].ws \in wsLive

\* C11: a fetch makes at most 5 requests, and whenever it goes from a failed
\* attempt k to attempt k+1 (k < 5) it does so by sleeping 2^k seconds: the
\* step to the next attempt is the end of that sleep.
C11_WaitBetweenAttempts ==
    /\ [](\A k \in Fetches : impl = "download" => fetch[k].tries <= retries)
    /\ [][\A k \in Fetches :
            (/\ impl = "download"
             /\ fetch[k].attempt >= 1
             /\ fetch'[k].attempt = fetch[k].attempt + 1
             /\ fetch'[k].attempt <= retries)
                => fetch[k].st = "sleep" /\ fetch[k].sleep_time = 2 ^ fetch[k].attempt]_vars

InProcessTrack == {t \in DOMAIN trk : impl = "dl" /\ trk[t].pc \notin {"start", "done"}}

\* C12: at every moment at most concurrent_downloads tracks of the batch are
\* inside process_track (each holds one permit of the semaphore), a track that
\* finds no permit stays outside, and every track of the batch eventually
\* leaves the wait and gets its turn.
C12_SemaphoreBound ==
    /\ [](/\ Cardinality(InProcessTrack) <= concurrent_downloads
          /\ semaphore = concurrent_downloads - Cardinality(InProcessTrack))
    /\ (impl = "dl" /\ batch.st = "running")
          ~> (\A t \in DOMAIN trk : InCurrentBatch(t) => trk[t].pc # "start")

\* C12 happens: with one permit, one track is suspended inside process_track
\* and the other track of the batch is waiting on the semaphore.
C12_Witness ==
    /\ impl = "dl" /\ concurrent_downloads = 1 /\ semaphore = 0 /\ cur = 0
    /\ \E t, u \in DOMAIN trk : trk[t].pc = "gather" /\ trk[u].pc = "start"

\* C13: the tracks that are in the rate-limiter wait or in the resolution call
\* are at most one, and that track holds api_lock.
C13_OneResolutionAtATime ==
    \A t \in DOMAIN trk :
        (impl = "dl" /\ trk[t].pc \in {"rate", "rate_sleep", "resolve"})
            => /\ api_lock = t
               /\ \A u \in DOMAIN trk :
                     trk[u].pc \in {"rate", "rate_sleep", "resolve"} => u = t

\* C13 happens: one track holds api_lock and sleeps in the rate limiter, and
\* another track is suspended waiting for api_lock.
C13_Witness ==
    \E t, u \in DOMAIN trk :
        /\ impl = "dl" /\ t # u
        /\ trk[t].pc = "rate_sleep" /\ api_lock = t
        /\ trk[u].pc = "lock" /\ cur = 0

\* C14: whenever RateLimiter.wait returns (and the resolution call follows),
\* at least min_interval has passed since its previous return.
C14_MinIntervalBetweenCalls ==
    [][\A t \in DOMAIN trk :
         (/\ impl = "dl"
          /\ trk[t].pc \in {"rate", "rate_sleep"}
          /\ trk'[t].pc = "resolve")
             => elapsed >= min_interval]_vars

\* C14 happens: a track is back from the sleep of the rate limiter and in its
\* resolution call, while another track that arrived meanwhile waits for the
\* lock.
C14_Witness ==
    \E t, u \in DOMAIN trk :
        /\ impl = "dl" /\ t # u
        /\ trk[t].pc = "resolve" /\ cur = t /\ elapsed = 0
        /\ trk[u].pc = "lock"

\* C15: no track of a later batch has started while a track of an earlier
\* batch has not produced its result; the inter-batch delay has been slept
\* once for every batch begun after the first, and when orchestrate_download
\* has returned it has been slept once less than there are batches.
C15_BatchesInSequence ==
    impl = "dl" =>
        /\ \A t, u \in DOMAIN trk :
              (BatchOf(t) < BatchOf(u) /\ trk[u].pc # "start") => trk[t].pc = "done"
        /\ orch.delays = orch.batch_num
        /\ \A t \in DOMAIN trk : trk[t].pc # "start" => BatchOf(t) <= orch.delays
        /\ orch.pc = "returned" => orch.delays = total_batches - 1

\* C15 happens: a playlist of three tracks in batches of two has been
\* processed to the end, one delay between its two batches.
C15_Witness ==
    /\ impl = "dl" /\ orch.pc = "returned" /\ orch.batch_size = 2
    /\ Len(trk) = 3 /\ orch.delays = 1
    /\ \A t \in DOMAIN trk : trk[t].pc = "done" /\ trk[t].result = "true"

FetchesOf(t) == {k \in Fetches : k[1] = t}

\* C16: a track is in (or past) its decrypt, merge, probe/extract, finalize
\* or tag stage only when every fetch of the track has completed successfully,
\* and in its finalize stage only with the processed file at hand: a failed
\* fetch is followed by no later stage.
C16_StagesInOrder ==
    \A t \in DOMAIN trk :
        impl = "dl" =>
            /\ trk[t].pc \in {"decrypt", "merge", "post", "finalize", "record"}
                  => /\ FetchesOf(t) # {}
                     /\ \A k \in FetchesOf(t) : fetch[k].st = "done" /\ fetch[k].ret = "ok"
            /\ trk[t].pc = "finalize" => Exists(fs, <<trk[t].ws, trk[t].file>>)

\* C17: when write_metadata has failed on the finalized file of a track (it
\* returned false or raised), the track is still reported successful, and the
\* file is in the destination with the audio bytes and the container it was
\* moved with, untagged.
C17_MetadataFailureNotFatal ==
    \A t \in DOMAIN trk :
        (impl = "dl" /\ trk[t].metadata = "failed")
            => /\ trk[t].result = "true"
               /\ trk[t].success = "true"
               /\ Exists(fs, <<Dest, trk[t].file>>)
               /\ fs[<<Dest, trk[t].file>>].data = InIndexOrder(trk[t].stream, 0)
               /\ ~fs[<<Dest, trk[t].file>>].tags

\* C17 happens: a track whose metadata write failed has returned.
C17_Witness ==
    \E t \in DOMAIN trk :
        /\ impl = "dl" /\ trk[t].pc = "done" /\ trk[t].metadata = "failed"
        /\ is_dash(trk[t].stream)

\* C18: a failure of the move into the destination never leaves
\* _finalize_download as an exception: finalize returns false, and so the
\* track's result is false.
C18_FinalizeCatchesMoveError ==
    \A t \in DOMAIN trk :
        /\ trk[t].success # "raised"
        /\ trk[t].success = "false" => trk[t].result = "false"

\* C19: when the decrypt stage of an encrypted multi-segment stream is over,
\* the key material has been derived once and every segment has been replaced
\* by its decrypted sibling (the sibling exists and holds the plaintext, the
\* ciphertext file is gone); and a step of the stage that removes a ciphertext
\* segment leaves its decrypted output behind.
C19_SegmentsReplacedByDecrypted ==
    /\ [](\A t \in DOMAIN trk :
            (trk[t].stream.enc /\ is_dash(trk[t].stream) /\ trk[t].pc = "merge")
                => /\ trk[t].keys = 1
                   /\ \A j \in 1..Len(trk[t].stream.urls) :
                         LET src == fetch[<<t, j>>].path
                             dst == trk[t].segment_files[j]
                         IN  /\ dst # src
                             /\ dst[1] = src[1]
                             /\ dst[2].base = src[2].base /\ dst[2].id = src[2].id
                             /\ \E i \in 1..Len(dst[2].sufs) : dst[2].sufs[i] = ".decrypted"
                             /\ Exists(fs, dst)
                             /\ fs[dst].data = Plain(j)
                             /\ ~Exists(fs, src))
    /\ [][\A k \in Fetches :
            (/\ trk[k[1]].stream.enc /\ is_dash(trk[k[1]].stream)
             /\ trk[k[1]].pc = "decrypt"
             /\ Exists(fs, fetch[k].path)
             /\ ~Exists(fs', fetch[k].path))
                => LET dst == trk'[k[1]].segment_files[k[2]]
                   IN  /\ Exists(fs', dst)
                       /\ fs'[dst].data = XorStream(fs[fetch[k].path].data)]_vars

\* C19 happens: the decrypt stage of an encrypted two-segment stream of dl.py
\* is over.
C19_Witness ==
    \E t \in DOMAIN trk :
        /\ impl = "dl" /\ trk[t].stream.enc /\ Len(trk[t].stream.urls) = MaxSegs
        /\ trk[t].pc = "merge" /\ trk[t].keys = 1

\* C20 as stated: while event_pause is cleared and event_abort is not set, no
\* fetch starts an HTTP request.
C20_NoAttemptWhilePaused ==
    [][\A k \in Fetches :
         (impl = "download" /\ ~event_pause /\ ~event_abort /\ fetch[k].st = "request")
             => fetch'[k].st = "request"]_vars

\* C20 amended: no fetch passes the gate at the head of an attempt while
\* event_pause is cleared, a fetch blocked at the gate stays there without
\* returning until event_pause is set, setting it wakes every blocked fetch,
\* and a woken fetch goes on to its request.
C20_PauseGate ==
    /\ [][\A k \in Fetches :
            impl = "download" =>
                /\ (fetch[k].st = "pause" /\ fetch'[k].st = "request") => event_pause
                /\ fetch[k].st = "blocked" => fetch'[k].st \in {"blocked", "released"}
                /\ (fetch[k].st = "blocked" /\ fetch'[k].st = "released")
                      => ~event_pause /\ event_pause']_vars
    /\ [](\A k \in Fetches :
            (impl = "download" /\ fetch[k].st = "blocked")
                => ~event_pause /\ fetch[k].ret = "none")
    /\ \A k \in FetchIds :
          (k \in Fetches /\ fetch[k].st = "released")
              ~> (k \in Fetches /\ fetch[k].st = "request")

\* C20 happens: resume() has woken a fetch that was blocked at the gate.
C20_Witness ==
    \E k \in Fetches :
        impl = "download" /\ fetch[k].st = "released" /\ event_pause /\ ~event_abort

\* The stored best quality of a track meets or exceeds the quality offered.
MeetsOrExceeds(t) ==
    /\ trk[t].existing_quality # ""
    /\ quality_rank(normalize(trk[t].existing_quality))
          >= quality_rank(normalize(trk[t].stream.quality))

\* C21: when the database holds a download of a track whose best stored
\* quality meets or exceeds the quality now offered, process_track returns
\* true from the quality check: the step changes no file, starts no fetch and
\* creates no workspace, and the track never has a fetch or a workspace.
C21_SkipWithoutDownload ==
    /\ [](\A t \in DOMAIN trk :
            (impl = "dl" /\ MeetsOrExceeds(t))
                => /\ trk[t].pc = "done" /\ trk[t].result = "true"
                   /\ trk[t].ws = 0
                   /\ FetchesOf(t) = {})
    /\ [][\A t \in DOMAIN trk :
            (/\ impl = "dl" /\ ~skip_db
             /\ trk[t].pc = "dbcheck"
             /\ trk'[t].pc # "dbcheck"
             /\ is_track_downloaded(t)
             /\ quality_rank(normalize(get_best_quality_downloaded(t)))
                   >= quality_rank(normalize(trk[t].stream.quality)))
                => /\ trk'[t].pc = "done" /\ trk'[t].result = "true"
                   /\ fetch' = fetch /\ fs' = fs /\ wsLive' = wsLive /\ nextWs' = nextWs
                   /\ db' = db]_vars

\* C21 happens: a track stored as high_lossless is offered low_320k, and a
\* track stored as "LOSSLESS" is offered high_lossless: skipped, result true.
C21_Witness ==
    \E t \in DOMAIN trk :
        /\ impl = "dl" /\ trk[t].pc = "done" /\ trk[t].result = "true"
        /\ \/ trk[t].existing_quality = "high_lossless" /\ trk[t].stream.quality = "low_320k"
           \/ trk[t].existing_quality = "LOSSLESS" /\ trk[t].stream.quality = "high_lossless"


ValidBase64(s) == ~s.none /\ s.padded /\ \A i \in 1..Len(s.chars) : InAlphabet(s.chars[i])

\* C23: decrypt_security_token raises whenever the token or the master key is
\* not valid base64 or the decrypted token is shorter than 24 bytes, and what
\* it returns is a key of at least 16 bytes and a nonce of at least 8 bytes.
C23_FailsOnBadInput ==
    (impl = "codec" /\ key_log.n > 0)
        => LET call == key_log.last
               decrypted_bytes == (Len(b64decode(call.token).bytes) * WordBytes) - 16
           IN  /\ (\/ ~ValidBase64(call.token)
                    \/ ~ValidBase64(call.master_key)
                    \/ decrypted_bytes < 24) => call.result.raised # ""
               /\ call.result.raised = ""
                     => /\ Len(call.result.key) * WordBytes >= 16
                        /\ Len(call.result.nonce) * WordBytes >= 8

\* The track has just left _post_process_file with its probe result.
Probed(t) == impl = "dl" /\ trk[t].probe.run # NoRun

\* C24: the probe never raises; it returns ("", "") when ffprobe cannot be
\* run, times out, exits with an error, prints no JSON, or reports neither a
\* usable stream nor a format (a missing stream alone gives the codec "", a
\* missing format alone the container ""); and a codec outside
\* {aac, flac, alac}, "" included, does not fail the track: it goes on to
\* finalize with its file at hand.
C24_ProbeNeverFails ==
    \A t \in DOMAIN trk :
        Probed(t) =>
            LET run == trk[t].probe.run
                codec == trk[t].probe.codec
                container == trk[t].probe.container
                nostream == run.streams = <<>> \/ run.streams[1] = "nokey"
            IN  /\ ~trk[t].probe.raised
                /\ run.outcome # "json" => codec = "" /\ container = ""
                /\ (nostream /\ run.format = "absent") => codec = "" /\ container = ""
                /\ nostream => codec = ""
                /\ run.format = "absent" => container = ""
                /\ codec \notin {"aac", "flac", "alac"}
                      => /\ trk[t].pc = "finalize"
                         /\ trk[t].result = "none"
                         /\ Exists(fs, <<trk[t].ws, trk[t].file>>)

\* C24 happens: ffprobe timed out on the file of a track, the probe returned
\* ("", ""), and the track is on its way to finalize.
C24_Witness ==
    \E t \in DOMAIN trk :
        /\ Probed(t) /\ trk[t].pc = "finalize"
        /\ trk[t].probe.run.outcome = "timeout"
        /\ trk[t].probe.codec = ""

\* C25: leaving _post_process_file, the extraction has run exactly if the
\* descriptor needs FLAC extraction, the probed codec is flac and the probed
\* container is MP4; in every other case the step changes no file but the
\* one it decrypts, and the file passed to finalize is the downloaded file
\* (its decrypted sibling for an encrypted single file) as it was.
C25_ExtractionIffMisboxedFlac ==
    [][\A t \in DOMAIN trk :
         (impl = "dl" /\ trk[t].pc = "post" /\ trk'[t].probe.run # NoRun)
            => LET s == trk[t].stream
                   w == trk[t].ws
                   dec == s.enc /\ ~is_dash(s)
                   old == <<w, trk[t].file>>
                   new == <<w, trk'[t].file>>
               IN  /\ trk'[t].extracted # "none"
                      <=> (/\ needs_flac_extraction(s)
                           /\ trk'[t].probe.codec = "flac"
                           /\ trk'[t].probe.container = "mov,mp4,m4a,3gp,3g2,mj2")
                   /\ trk'[t].extracted = "none"
                      => /\ trk'[t].pc = "finalize"
                         /\ Exists(fs', new)
                         /\ IF dec
                            THEN /\ new = <<w, with_suffix(trk[t].file, <<".decrypted">>)>>
                                 /\ fs'[new] = [fs[old] EXCEPT !.data = XorStream(@)]
                            ELSE /\ new = old
                                 /\ fs' = fs]_vars

\* C25 happens: the file of a stream that needs FLAC extraction was probed as
\* flac in MP4 and has been extracted.
C25_Witness ==
    \E t \in DOMAIN trk :
        /\ Probed(t) /\ trk[t].pc = "finalize"
        /\ trk[t].probe.codec = "flac"
        /\ trk[t].probe.container = "mov,mp4,m4a,3gp,3g2,mj2"
        /\ needs_flac_extraction(trk[t].stream) /\ trk[t].extracted = "made"

\* The files of the destination directory.
InDest(f) == [p \in {q \in DOMAIN f : q[1] = Dest} |-> f[p]]

\* C26: an extraction that made its output leaves the output file, of the
\* same audio bytes, as the file of the track and the MP4 file it read is
\* gone; an extraction that made no output fails the track (result false),
\* and from then on nothing changes in the destination directory.
C26_ExtractionReplacesOrFails ==
    /\ [][\A t \in DOMAIN trk :
            (impl = "dl" /\ trk[t].pc = "post" /\ trk'[t].extracted \in {"made", "no_output"})
               => LET w == trk[t].ws
                      dec == trk[t].stream.enc /\ ~is_dash(trk[t].stream)
                      mp4_file == IF dec THEN <<w, with_suffix(trk[t].file, <<".decrypted">>)>>
                                  ELSE <<w, trk[t].file>>
                      output == <<w, trk'[t].file>>
                  IN  /\ ~Exists(fs', mp4_file)
                      /\ InDest(fs') = InDest(fs)
                      /\ IF trk'[t].extracted = "made"
                         THEN /\ trk'[t].pc = "finalize"
                              /\ output # mp4_file
                              /\ suffix(output[2]) = ".flac"
                              /\ Exists(fs', output)
                              /\ fs'[output].data
                                    = (IF dec THEN XorStream(fs[<<w, trk[t].file>>].data)
                                       ELSE fs[mp4_file].data)
                         ELSE /\ trk'[t].pc = "cleanup"
                              /\ trk'[t].result = "false"]_vars
    /\ [][\A t \in DOMAIN trk :
            (impl = "dl" /\ trk[t].extracted = "no_output")
               => /\ InDest(fs') = InDest(fs)
                  /\ trk'[t].result = "false"
                  /\ trk'[t].pc \in {"cleanup", "done"}]_vars

\* C26 happens: the extraction of a track made no output, and the track has
\* returned.
C26_Witness ==
    \E t \in DOMAIN trk :
        impl = "dl" /\ trk[t].extracted = "no_output" /\ trk[t].pc = "done"

\* C27: a call of emergency_cleanup with event_abort not set sets it and runs
\* _cleanup (the HTTP client is closed); a call with event_abort set changes
\* nothing; no call raises; and once it has been called, event_abort is set.
C27_EmergencyCleanup ==
    /\ [][(impl = "download" /\ atexit'.calls = atexit.calls + 1)
            => /\ ~atexit'.raised
               /\ event_abort'
               /\ IF event_abort
                  THEN /\ atexit'.cleanups = atexit.cleanups
                       /\ UNCHANGED <<cfgVars, libVars, dlVars, threadVars, client, fs, wsLive,
                                      nextWs, trk, fetch, http_errors>>
                  ELSE /\ atexit'.cleanups = atexit.cleanups + 1
                       /\ client' = "closed"]_vars
    /\ [](atexit.calls > 0 => event_abort)

\* C27 happens: emergency_cleanup was called with event_abort not set and
\* cleaned up, and it was called again and did nothing.
C27_Witness ==
    impl = "download" /\ atexit.calls = 2 /\ atexit.cleanups = 1 /\ client = "closed"

\* C28: every construction of TidlClient returns the instance the first
\* construction created, the initialiser has run at most once, and a later
\* construction leaves the instance as it is.
C28_Singleton ==
    /\ [](impl = "client" =>
            /\ Len(heap) <= 1
            /\ \A n \in DOMAIN calls : calls[n].op = "construct" => calls[n].self = 1)
    /\ [][(impl = "client" /\ instances # <<>> /\ Len(calls') > Len(calls)
            /\ calls'[Len(calls')].op = "construct")
            => heap' = heap /\ instances' = instances]_vars

\* C28 happens: TidlClient was constructed, authenticated, and then constructed
\* again, which returned the authenticated instance.
C28_Witness ==
    /\ impl = "client"
    /\ Len(calls) = 3
    /\ calls[1].op = "construct"
    /\ calls[2].op = "authenticate" /\ calls[2].returned = "true"
    /\ calls[3].op = "construct" /\ calls[3].self = calls[1].self
    /\ heap[calls[3].self]._authenticated

\* is_authenticated() can return True in this state.
MayReportAuthenticated(self) == self._authenticated /\ self.session.logged_in

\* C29: an authenticate whose login step reports failure signals failure and
\* leaves the client not authenticated; is_authenticated is true only after a
\* login that succeeded.
C29_FailedLoginNotAuthenticated ==
    /\ [][(impl = "client" /\ Len(calls') > Len(calls)
            /\ calls'[Len(calls')].op = "authenticate"
            /\ calls'[Len(calls')].login # "logged_in")
            => /\ calls'[Len(calls')].returned = "false"
               /\ ~MayReportAuthenticated(heap'[calls'[Len(calls')].self])]_vars
    /\ [](\A n \in DOMAIN calls :
            (calls[n].op = "is_authenticated" /\ calls[n].returned = "true")
            => \E m \in 1..(n - 1) :
                  calls[m].op = "authenticate" /\ calls[m].login = "logged_in")

\* The sequences that list every position of 1..n once.
Orders(n) == { o \in [1..n -> 1..n] : \A i, j \in 1..n : o[i] = o[j] => i = j }

RECURSIVE PayloadsInOrder(_)
PayloadsInOrder(o) ==
    IF o = <<>> THEN <<>> ELSE Plain(o[1]) \o PayloadsInOrder(Tail(o))

\* C30: no two URLs of a multi-segment stream are fetched into the same
\* segment file, and when the merge has succeeded the merged file holds the
\* payload of every URL exactly once, in some order.
C30_EveryUrlOnce ==
    \A t \in DOMAIN trk :
        (impl = "dl" /\ is_dash(trk[t].stream))
        => /\ trk[t].pc = "gather"
              => \A p, q \in DOMAIN trk[t].segment_files :
                    trk[t].segment_files[p] = trk[t].segment_files[q] => p = q
           /\ (trk[t].pc = "post" /\ Exists(fs, <<trk[t].ws, trk[t].file>>))
              => \E o \in Orders(Len(trk[t].stream.urls)) :
                    fs[<<trk[t].ws, trk[t].file>>].data = PayloadsInOrder(o)

\* C31: a merge that finds a segment file missing skips it, writes the
\* remaining segments in ascending index order into the merged file, and
\* returns without raising, so that the track goes on.
C31_MissingSegmentSkipped ==
    [][\A t \in DOMAIN trk :
         (/\ t \in DOMAIN trk'
          /\ trk[t].pc = "merge" /\ trk'[t].pc # "merge"
          /\ \E i \in DOMAIN trk[t].segment_files : ~Exists(fs, trk[t].segment_files[i]))
         => /\ Exists(fs', MergedPath(t))
            /\ fs'[MergedPath(t)].data
                 = ConcatExisting(fs, SortedSegments(trk[t].segment_files))
            /\ trk'[t].pc # "cleanup"
            /\ trk'[t].result # "false"]_vars

\* C32: while event_abort is set, no fetch makes an HTTP request and no fetch
\* writes a chunk.
C32_NothingStartsAfterAbort ==
    [][\A k \in Fetches :
         (impl = "download" /\ event_abort /\ k \in DOMAIN fetch')
            => /\ fetch'[k].tries # fetch[k].tries + 1
               /\ fetch'[k].written # fetch[k].written + 1]_vars

\* The worker thread of the fetch k is inside _download_file.
InProgress(k) == k \in Fetches /\ fetch[k].st \notin {"queued", "done", "cancelled"}

\* stop() has been called and left event_abort and event_pause set: it is
\* the one operation that sets event_abort and leaves the client open.
Stopped == impl = "download" /\ event_abort /\ event_pause /\ client = "open"

\* C33: once stop() has been called, every fetch that is in progress returns,
\* whatever pause() and resume() calls follow.
C33_FetchesReturnAfterStop ==
    \A k \in FetchIds : (Stopped /\ InProgress(k)) ~> (k \in Fetches /\ FetchDone(k))

\* C34: the file of a finalized track is in the destination directory under
\* the track's name with the extension the manifest declares, or with .flac
\* when the FLAC extraction ran.
C34_FinalSuffixDeclared ==
    \A t \in DOMAIN trk :
        Finalized(t)
            => /\ Exists(fs, <<Dest, trk[t].file>>)
               /\ suffix(trk[t].file) = IF trk[t].extracted = "made" THEN ".flac"
                                        ELSE trk[t].stream.ext

\* C35: a download record written after a successful download names the path
\* at which the finalized file is, with the size of that file.
C35_RecordNamesFinalizedFile ==
    [][\A t \in DOMAIN trk :
         (/\ impl = "dl" /\ ~skip_db
          /\ trk[t].pc = "record" /\ trk[t].result = "true"
          /\ Len(db'[t]) = Len(db[t]) + 1)
         => LET row == db'[t][Len(db'[t])]
            IN  /\ row.file_path = trk[t].file
                /\ Exists(fs, <<Dest, row.file_path>>)
                /\ row.file_size = Len(fs[<<Dest, trk[t].file>>].data)]_vars

\* C36: with skip_existing set and without database, a second processing of a
\* track that was downloaded creates no workspace, starts no fetch and
\* returns true.
C36_SecondCallSkips ==
    \A t \in DOMAIN trk :
        (impl = "dl" /\ trk[t].call > 1)
            => /\ trk[t].ws = 0
               /\ FetchesOf(t) = {}
               /\ trk[t].pc = "done" => trk[t].result = "true"

\* The tracks a playlist of the model may have.
TrackIds == 1..3

\* C37: the step that leaves the resolution leaves api_lock free, whether it
\* returns a stream, fails with StreamInfoError or raises; the lock is held
\* only by a track between acquiring it and leaving the resolution; and a
\* track that waits for the lock gets it.
C37_LockReleasedOnEveryPath ==
    /\ [][\A t \in DOMAIN trk :
            (impl = "dl" /\ trk[t].pc = "resolve" /\ trk'[t].pc # "resolve")
                => api_lock' = 0]_vars
    /\ [](impl = "dl" /\ api_lock # 0
            => trk[api_lock].pc \in {"rate", "rate_sleep", "resolve"})
    /\ \A t \in TrackIds :
          (impl = "dl" /\ t \in DOMAIN trk /\ trk[t].pc = "lock")
              ~> (t \in DOMAIN trk
                  /\ trk[t].pc \in {"rate", "rate_sleep", "resolve", "dbcheck", "done"})

\* C37 happens: the resolution of one track has raised, and another track of
\* the batch holds the lock after it.
C37_Witness ==
    \E t, u \in DOMAIN trk :
        /\ impl = "dl" /\ t # u
        /\ trk[t].pc = "done" /\ trk[t].result = "raised" /\ trk[t].stream = NoStream
        /\ trk[u].pc = "resolve" /\ api_lock = u

\* C38: _process_batch returns a map with one entry per track of the batch,
\* orchestrate_download returns a map with one entry per track of the list,
\* also when the processing of a track raised, and the success count is the
\* number of tracks whose result is true.
C38_OneEntryPerTrack ==
    impl = "dl" =>
        /\ batch.st # "raised" /\ orch.pc # "raised"
        /\ batch.st = "returned"
              => Cardinality(DOMAIN batch.results)
                    = Cardinality({t \in DOMAIN trk : InCurrentBatch(t)})
        /\ orch.pc = "returned"
              => /\ Cardinality(DOMAIN orch.results) = Len(trk)
                 /\ progress = Cardinality({t \in DOMAIN trk : trk[t].result = "true"})

\* C39: there are ceil(n / batch_size) batches, none for an empty list; the
\* batches are consecutive slices of the list, each of batch_size tracks but
\* for the last, which may have fewer; every track is in exactly one batch;
\* the tasks of a batch are those of its slice; a track is started only when
\* its batch is the current one and is never started again; and an empty
\* list returns at once, without a batch and without a delay.
C39_BatchesPartition ==
    /\ [](impl = "dl" =>
            /\ total_batches * orch.batch_size >= Len(trk)
            /\ total_batches > 0 => (total_batches - 1) * orch.batch_size < Len(trk)
            /\ Len(trk) = 0
                  => total_batches = 0 /\ orch.pc = "returned" /\ orch.delays = 0
                     /\ batch.st = "none"
            /\ \A b \in 0..(total_batches - 1) :
                  /\ Cardinality(Slice(b)) = IF b < total_batches - 1 THEN orch.batch_size
                                             ELSE Len(trk) - (b * orch.batch_size)
                  /\ Cardinality(Slice(b)) \in 1..orch.batch_size
                  /\ \A t \in Slice(b), u \in DOMAIN trk :
                        (u > t /\ u \notin Slice(b)) => \E c \in (b + 1)..(total_batches - 1) : u \in Slice(c)
            /\ \A t \in DOMAIN trk :
                  /\ Cardinality({b \in 0..(total_batches - 1) : t \in Slice(b)}) = 1
                  /\ InCurrentBatch(t) <=> t \in Slice(orch.batch_num)
                  /\ trk[t].pc # "start" => \E b \in 0..orch.batch_num : t \in Slice(b)
            /\ orch.pc = "returned" /\ Len(trk) > 0
                  => /\ orch.batch_num = total_batches - 1
                     /\ \A t \in DOMAIN trk : trk[t].pc = "done")
    /\ [][\A t \in DOMAIN trk :
            (impl = "dl" /\ trk[t].pc # "start") => trk'[t].pc # "start"]_vars

\* C39 happens: three tracks in batches of two have been processed, the
\* second batch being the third track alone.
C39_Witness ==
    /\ impl = "dl" /\ orch.pc = "returned"
    /\ Len(trk) = 3 /\ orch.batch_size = 2 /\ total_batches = 2
    /\ Slice(0) = {1, 2} /\ Slice(1) = {3}
    /\ \A t \in DOMAIN trk : trk[t].pc = "done"

\* C40: _validate_track refuses every track that is unavailable or whose
\* duration is not positive, and a call that returns from its validation
\* returns false at once: the step that takes the track from its start to
\* its end holds no API lock and leaves the lock, the rate limiter's clock,
\* the database, the file system, the workspaces and the fetches as they
\* were, and the track has no stream and no workspace.  A track that goes
\* on to the API lock holds a permit.
C40_InvalidTrackReturnsAtOnce ==
    /\ [](\A available \in BOOLEAN, duration \in Durations :
            (~available \/ duration <= 0) => ~validate_track(available, duration))
    /\ [][\A t \in DOMAIN trk :
            (trk[t].pc = "start" /\ t \in DOMAIN trk' /\ trk'[t].pc = "done" /\ ~event_abort)
               => /\ trk'[t].result = "false"
                  /\ trk'[t].stream = NoStream /\ trk'[t].ws = 0
                  /\ api_lock' = api_lock /\ api_lock # t
                  /\ elapsed' = elapsed
                  /\ db' = db /\ fs' = fs
                  /\ wsLive' = wsLive /\ nextWs' = nextWs
                  /\ fetch' = fetch]_vars

\* C40 happens: the first of two tracks was refused at its validation while
\* nothing had yet been resolved, stored, or fetched, and the rate limiter
\* was never waited for.
C40_Witness ==
    /\ impl = "dl" /\ Len(trk) = 2
    /\ trk[1].pc = "done" /\ trk[1].result = "false" /\ trk[1].stream = NoStream
    /\ trk[2].pc = "start"
    /\ api_lock = 0 /\ elapsed = min_interval /\ nextWs = 0 /\ fetch = <<>>

============================================================================
